---- MODULE Spec2Model ----
(***************************************************************************)
(* TruthChain validation-and-correction pipeline.                          *)
(*                                                                         *)
(* A request is (output, rules, context) handed to                         *)
(* ValidationEngine.validate; the engine was constructed with or without a *)
(* database session (has_db).  Python values are tagged records, strings   *)
(* are TLA+ strings, and every handler is an operator computed the way the *)
(* code computes it; a Python exception that leaves a function is the      *)
(* field raised = TRUE of the function's result.                           *)
(***************************************************************************)
EXTENDS Integers, Sequences, FiniteSets, TLC

VARIABLES output,    \* the caller's document (a dict value)
          rules,     \* the caller's rule list (a sequence of rule dicts)
          context,   \* the caller's context (None or a dict value)
          has_db,    \* ValidationEngine(db_session=...) was given a session
          env,       \* what the external collaborators answer during the call
          pc,        \* "ready" -> "returned" | "raised" | "fixed"
          result,    \* the ValidationResult, NoResult before validate returns
          fix_result, \* what a direct call of AutoCorrector.fix returned
          check_result, \* what a direct call of ExternalReferenceValidator.check returned
          waited,    \* seconds a caller has been suspended on a connector so far
          models,    \* MLAnomalyDetector._models: organization -> stored model or None
          store,     \* the files of the model directory: path -> stored model or None
          ml_result, \* what the last call of the detector returned
          scoring,   \* the arguments of a call of calculate_confidence
          confidence, \* what calculate_confidence and get_confidence_level returned
          second,    \* what the second of two calls with the same arguments returned
          zscore,    \* a call of detect_outlier_zscore: its arguments and its result
          organization, \* the Organization row of the caller
          http_status, \* the status of the last HTTP response, 0 before any
          threads,   \* the requests in progress: request -> its position and locals
          limiter,   \* the sorted sets of the rate limiter in Redis: key -> entries
          clock,     \* the time in seconds
          api_keys   \* the APIKey rows of the organization: key -> row

connector_vars == <<check_result, waited>>
ml_vars == <<models, store, ml_result>>
confidence_vars == <<scoring, confidence>>
service_vars == <<zscore, organization, http_status, threads, limiter, clock, api_keys>>
engine_vars == <<output, rules, context, has_db, env, pc, result, fix_result, connector_vars, ml_vars, confidence_vars, second>>

vars == <<output, rules, context, has_db, env, pc, result, fix_result, connector_vars, ml_vars, confidence_vars, second, service_vars>>

----------------------------------------------------------------------------
(* Python values *)

None == [t |-> "none"]
IntV(n) == [t |-> "int", n |-> n]
FloatV(n) == [t |-> "float", n |-> n]
StrV(s) == [t |-> "str", s |-> s]
BoolV(b) == [t |-> "bool", b |-> b]
ListV(l) == [t |-> "list", l |-> l]
DictV(d) == [t |-> "dict", d |-> d]

EmptyDict == DictV([k \in {} |-> None])

IsNumber(v) == v.t \in {"int", "float"}

\* Python ==  on the values of the model: 24 == 24.0
PyEq(a, b) == IF IsNumber(a) /\ IsNumber(b) THEN a.n = b.n ELSE a = b

\* dict.get(key) with the default None
DictGet(v, k) == IF k \in DOMAIN v.d THEN v.d[k] ELSE None

\* dict.get(key, default)
DictGetOr(v, k, default) == IF k \in DOMAIN v.d THEN v.d[k] ELSE default

\* d[key] = value on a dict value
DictSet(v, k, x) == DictV([j \in (DOMAIN v.d) \cup {k} |-> IF j = k THEN x ELSE v.d[j]])

\* bool(v)
Truthy(v) ==
    CASE v.t = "none" -> FALSE
      [] v.t = "int" -> v.n # 0
      [] v.t = "float" -> v.n # 0
      [] v.t = "str" -> v.s # ""
      [] v.t = "bool" -> v.b
      [] v.t = "list" -> v.l # <<>>
      [] v.t = "dict" -> DOMAIN v.d # {}

----------------------------------------------------------------------------
(* Strings *)

Char(s, i) == SubSeq(s, i, i)

\* sub in s
Contains(s, sub) ==
    \E i \in 1..(Len(s) - Len(sub) + 1) : SubSeq(s, i, i + Len(sub) - 1) = sub

\* s.find(sub) + 1, 0 when absent
Find(s, sub) ==
    IF Contains(s, sub)
    THEN CHOOSE i \in 1..(Len(s) - Len(sub) + 1) :
            /\ SubSeq(s, i, i + Len(sub) - 1) = sub
            /\ \A j \in 1..(i - 1) : SubSeq(s, j, j + Len(sub) - 1) # sub
    ELSE 0

UpperAlpha == "ABCDEFGHIJKLMNOPQRSTUVWXYZ"
LowerAlpha == "abcdefghijklmnopqrstuvwxyz"

UpperChars == {Char(UpperAlpha, i) : i \in 1..26}
LowerOf == [c \in UpperChars |-> Char(LowerAlpha, Find(UpperAlpha, c))]

LowerChar(c) == IF c \in UpperChars THEN LowerOf[c] ELSE c

RECURSIVE Lower(_)
\* str.lower()
Lower(s) ==
    IF Len(s) <= 1 THEN LowerChar(s)
    ELSE LET half == Len(s) \div 2
         IN Lower(SubSeq(s, 1, half)) \o Lower(SubSeq(s, half + 1, Len(s)))

IsSpace(c) == c \in {" ", "\t", "\n", "\r"}
Digits == {"0", "1", "2", "3", "4", "5", "6", "7", "8", "9"}
IsDigit(c) == c \in Digits
DigitVal(c) == Find("0123456789", c) - 1

RECURSIVE LStrip(_)
LStrip(s) == IF s # "" /\ IsSpace(Char(s, 1)) THEN LStrip(Tail(s)) ELSE s

RECURSIVE RStrip(_)
RStrip(s) ==
    IF s # "" /\ IsSpace(Char(s, Len(s))) THEN RStrip(SubSeq(s, 1, Len(s) - 1)) ELSE s

\* str.strip()
Strip(s) == LStrip(RStrip(s))

RECURSIVE Split(_, _)
\* s.split(sep) for a one-character separator
Split(s, sep) ==
    IF ~Contains(s, sep) THEN <<s>>
    ELSE LET i == Find(s, sep)
         IN <<SubSeq(s, 1, i - 1)>> \o Split(SubSeq(s, i + 1, Len(s)), sep)

RECURSIVE DigitsEnd(_, _)
\* the position after the longest run of digits of s that starts at i
DigitsEnd(s, i) == IF i <= Len(s) /\ IsDigit(Char(s, i)) THEN DigitsEnd(s, i + 1) ELSE i

RECURSIVE SpaceEnd(_, _)
\* the position after the longest run of whitespace of s that starts at i
SpaceEnd(s, i) == IF i <= Len(s) /\ IsSpace(Char(s, i)) THEN SpaceEnd(s, i + 1) ELSE i

RECURSIVE DigitsValue(_, _)
\* the number written by the digit string s, after the digits read so far
DigitsValue(s, acc) ==
    IF s = "" THEN acc ELSE DigitsValue(Tail(s), 10 * acc + DigitVal(Char(s, 1)))

AllDigits(s) == s # "" /\ DigitsEnd(s, 1) = Len(s) + 1

\* the numeric literals of the model: [sign] digits [ "." zeros ]
IsNumeral(s) ==
    LET body == IF s # "" /\ Char(s, 1) \in {"-", "+"} THEN Tail(s) ELSE s
        e == DigitsEnd(body, 1)
    IN /\ e > 1
       /\ \/ e = Len(body) + 1
          \/ /\ Char(body, e) = "."
             /\ \A j \in (e + 1)..Len(body) : Char(body, j) = "0"

NumeralValue(s) ==
    LET neg == Char(s, 1) = "-"
        body == IF Char(s, 1) \in {"-", "+"} THEN Tail(s) ELSE s
        e == DigitsEnd(body, 1)
        n == DigitsValue(SubSeq(body, 1, e - 1), 0)
    IN IF neg THEN 0 - n ELSE n

\* float(v): ok = FALSE stands for ValueError / TypeError
ToFloat(v) ==
    CASE v.t \in {"int", "float"} -> [ok |-> TRUE, n |-> v.n]
      [] v.t = "bool" -> [ok |-> TRUE, n |-> IF v.b THEN 1 ELSE 0]
      [] v.t = "str" -> IF IsNumeral(Strip(v.s))
                        THEN [ok |-> TRUE, n |-> NumeralValue(Strip(v.s))]
                        ELSE [ok |-> FALSE, n |-> 0]
      [] OTHER -> [ok |-> FALSE, n |-> 0]

RECURSIVE ReprItems(_)
ReprItems(l) ==
    IF l = <<>> THEN ""
    ELSE (IF Head(l).t = "str" THEN "'" \o Head(l).s \o "'" ELSE "?")
            \o (IF Len(l) > 1 THEN ", " ELSE "") \o ReprItems(Tail(l))

RECURSIVE Join(_)
\* ", ".join(l) for a list of strings
Join(l) ==
    IF l = <<>> THEN ""
    ELSE Head(l).s \o (IF Len(l) > 1 THEN ", " ELSE "") \o Join(Tail(l))

\* str(v) as an f-string renders it
Fmt(v) ==
    CASE v.t = "none" -> "None"
      [] v.t = "int" -> ToString(v.n)
      [] v.t = "float" -> ToString(v.n) \o ".0"
      [] v.t = "str" -> v.s
      [] v.t = "bool" -> IF v.b THEN "True" ELSE "False"
      [] v.t = "list" -> "[" \o ReprItems(v.l) \o "]"
      [] v.t = "dict" -> "{...}"

\* repr(v)
Repr(v) == IF v.t = "str" THEN "'" \o v.s \o "'" ELSE Fmt(v)

\* type(v).__name__
TypeName(v) ==
    CASE v.t = "none" -> "NoneType"
      [] v.t = "str" -> "str"
      [] OTHER -> v.t

----------------------------------------------------------------------------
(* Violation and the result of an evaluator *)

\* rule_idx is the position in the caller's rule list of the rule that
\* produced the violation; the code does not store it.
Violation(rule_name, violation_type, field, message, severity, found_value, expected_value, rule_idx) ==
    [rule_name |-> rule_name, violation_type |-> violation_type, field |-> field,
     message |-> message, severity |-> severity, found_value |-> found_value,
     expected_value |-> expected_value, rule_idx |-> rule_idx]

Ok(vs) == [raised |-> FALSE, vs |-> vs]
Raised == [raised |-> TRUE, vs |-> <<>>]

\* rule.get(key) and rule.get(key, default); a rule is a dict from keys to values
RGet(rule, k) == IF k \in DOMAIN rule THEN rule[k] ELSE None
RGetOr(rule, k, default) == IF k \in DOMAIN rule THEN rule[k] ELSE default

RECURSIVE Walk(_, _)
Walk(v, keys) ==
    IF keys = <<>> THEN v
    ELSE IF v.t = "dict" THEN Walk(DictGet(v, Head(keys)), Tail(keys))
    ELSE None

\* RuleEngine._get_nested_value: path.split('.') raises AttributeError on None
GetNestedValue(obj, path) ==
    IF path.t # "str" THEN [raised |-> TRUE, v |-> None]
    ELSE [raised |-> FALSE, v |-> Walk(obj, Split(path.s, "."))]

----------------------------------------------------------------------------
(* Rule Engine: one evaluator per rule kind *)

RuleName(rule, default) == RGetOr(rule, "name", StrV(default)).s
RuleSeverity(rule, default) == RGetOr(rule, "severity", StrV(default)).s

ValidateRange(out, rule, idx) ==
    LET field == RGet(rule, "field")
        min_val == RGet(rule, "min")
        max_val == RGet(rule, "max")
        g == GetNestedValue(out, field)
        value == g.v
        name == RuleName(rule, Fmt(field) \o "_range_check")
        num == ToFloat(value)
        fmin == ToFloat(min_val)
        fmax == ToFloat(max_val)
        conv_failed == \/ ~num.ok
                       \/ min_val # None /\ ~fmin.ok
                       \/ max_val # None /\ ~fmax.ok
        is_invalid == \/ min_val # None /\ num.n < fmin.n
                      \/ max_val # None /\ num.n > fmax.n
        message == IF min_val # None /\ max_val # None
                   THEN field.s \o " must be between " \o Fmt(min_val) \o " and " \o Fmt(max_val)
                   ELSE IF min_val # None
                   THEN field.s \o " must be >= " \o Fmt(min_val)
                   ELSE field.s \o " must be <= " \o Fmt(max_val)
        expected == IF min_val # None /\ max_val # None
                    THEN DictV([k \in {"min", "max"} |-> IF k = "min" THEN min_val ELSE max_val])
                    ELSE IF min_val # None
                    THEN DictV([k \in {"min"} |-> min_val])
                    ELSE DictV([k \in {"max"} |-> max_val])
    IN IF g.raised THEN Raised
       ELSE IF value = None THEN Ok(<<>>)
       ELSE IF conv_failed
       THEN Ok(<<Violation(name, "constraint", field.s, field.s \o " must be a number",
                           "error", value, StrV("numeric value"), idx)>>)
       ELSE IF is_invalid
       THEN Ok(<<Violation(name, "constraint", field.s, message,
                           RuleSeverity(rule, "error"), value, expected, idx)>>)
       ELSE Ok(<<>>)

\* eval(expression, allowed_names, {"value": value}) for the expressions of
\* the model; err stands for any exception eval raises
EvalExpression(expression, value) ==
    CASE expression = StrV("value > 0") ->
            IF IsNumber(value) THEN [err |-> FALSE, v |-> BoolV(value.n > 0)]
            ELSE IF value.t = "bool" THEN [err |-> FALSE, v |-> BoolV(value.b)]
            ELSE [err |-> TRUE, v |-> None]
      [] expression = StrV("value") -> [err |-> FALSE, v |-> value]
      [] expression = StrV("len(value) > 0") ->
            IF value.t = "str" THEN [err |-> FALSE, v |-> BoolV(Len(value.s) > 0)]
            ELSE IF value.t = "list" THEN [err |-> FALSE, v |-> BoolV(Len(value.l) > 0)]
            ELSE IF value.t = "dict" THEN [err |-> FALSE, v |-> BoolV(DOMAIN value.d # {})]
            ELSE [err |-> TRUE, v |-> None]
      [] OTHER -> [err |-> TRUE, v |-> None]

ValidateConstraint(out, rule, idx) ==
    LET field == RGet(rule, "field")
        expression == RGet(rule, "expression")
        g == GetNestedValue(out, field)
        value == g.v
        name == RuleName(rule, Fmt(field) \o "_constraint")
        r == EvalExpression(expression, value)
    IN IF g.raised THEN Raised
       ELSE IF value = None THEN Ok(<<>>)
       ELSE IF r.err
       THEN Ok(<<Violation(name, "constraint", field.s, "Constraint evaluation error",
                           "warning", value, None, idx)>>)
       ELSE IF ~Truthy(r.v)
       THEN Ok(<<Violation(name, "constraint", field.s,
                           RGetOr(rule, "message", StrV("Constraint failed: " \o Fmt(expression))).s,
                           RuleSeverity(rule, "error"), value, expression, idx)>>)
       ELSE Ok(<<>>)

\* re.match(pattern, value) for the patterns of the model:
\* "type_error" when the pattern is not a string, "re_error" when it does
\* not compile
ReMatch(pattern, s) ==
    CASE pattern.t # "str" -> [kind |-> "type_error", m |-> FALSE]
      [] pattern.s = "^[0-9]+$" ->
            [kind |-> "ok",
             m |-> \/ AllDigits(s)
                   \/ /\ Len(s) > 1
                      /\ Char(s, Len(s)) = "\n"
                      /\ AllDigits(SubSeq(s, 1, Len(s) - 1))]
      [] pattern.s = "^[A-Z]" ->
            [kind |-> "ok", m |-> s # "" /\ Contains(UpperAlpha, Char(s, 1))]
      [] OTHER -> [kind |-> "re_error", m |-> FALSE]

ValidatePattern(out, rule, idx) ==
    LET field == RGet(rule, "field")
        pattern == RGet(rule, "pattern")
        g == GetNestedValue(out, field)
        value == g.v
        name == RuleName(rule, Fmt(field) \o "_pattern_check")
        r == ReMatch(pattern, value.s)
    IN IF g.raised THEN Raised
       ELSE IF value = None THEN Ok(<<>>)
       ELSE IF value.t # "str"
       THEN Ok(<<Violation(name, "constraint", field.s,
                           field.s \o " must be a string for pattern matching",
                           "error", value, StrV("string"), idx)>>)
       ELSE IF r.kind = "type_error" THEN Raised
       ELSE IF r.kind = "re_error"
       THEN Ok(<<Violation(name, "constraint", field.s,
                           "Invalid regex pattern: " \o Fmt(pattern),
                           "warning", value, None, idx)>>)
       ELSE IF ~r.m
       THEN Ok(<<Violation(name, "constraint", field.s,
                           RGetOr(rule, "message",
                                  StrV("Value must match pattern: " \o Fmt(pattern))).s,
                           RuleSeverity(rule, "error"), value,
                           StrV("Pattern: " \o Fmt(pattern)), idx)>>)
       ELSE Ok(<<>>)

ValidateEnum(out, rule, idx) ==
    LET field == RGet(rule, "field")
        valid_options == RGetOr(rule, "valid_options", ListV(<<>>))
        g == GetNestedValue(out, field)
        value == g.v
        name == RuleName(rule, Fmt(field) \o "_enum_check")
    IN IF ~Truthy(field) \/ ~Truthy(valid_options) THEN Ok(<<>>)
       ELSE IF g.raised THEN Raised
       ELSE IF value = None THEN Ok(<<>>)
       ELSE IF \A i \in 1..Len(valid_options.l) : Fmt(valid_options.l[i]) # Fmt(value)
       THEN Ok(<<Violation(name, "constraint", field.s,
                           field.s \o " value '" \o Fmt(value)
                               \o "' is not in allowed list: " \o Fmt(valid_options),
                           RuleSeverity(rule, "error"), value,
                           DictV([k \in {"valid_options"} |-> valid_options]), idx)>>)
       ELSE Ok(<<>>)

ValidateRequired(out, rule, idx) ==
    LET field == RGet(rule, "field")
        g == GetNestedValue(out, field)
        value == g.v
        default_value == RGet(rule, "default_value")
        expected == IF default_value # None
                    THEN DictV([k \in {"default_value"} |-> default_value])
                    ELSE StrV("non-null value")
        name == RuleName(rule, Fmt(field) \o "_required")
    IN IF ~Truthy(field) THEN Ok(<<>>)
       ELSE IF g.raised THEN Raised
       ELSE IF value # None THEN Ok(<<>>)
       ELSE Ok(<<Violation(name, "schema", field.s,
                           "Required field '" \o field.s \o "' is missing or null",
                           RuleSeverity(rule, "error"), value, expected, idx)>>)

\* RuleEngine._validate_semantic; env.semantic is what check_alignment does
ValidateSemantic(out, rule, ctx, e, idx) ==
    LET output_field == RGet(rule, "output_field")
        context_field == RGet(rule, "context_field")
        name == RuleName(rule, Fmt(output_field) \o "_semantic_check")
        g == GetNestedValue(out, output_field)
        context_text == IF Truthy(ctx) THEN DictGet(ctx, context_field.s) ELSE None
    IN IF ~Truthy(output_field) \/ ~Truthy(context_field)
       THEN Ok(<<Violation(name, "semantic",
                           IF Truthy(output_field) THEN output_field.s ELSE "unknown",
                           "Semantic rule must specify both 'output_field' and 'context_field'",
                           "warning", None, None, idx)>>)
       ELSE IF g.raised THEN Raised
       ELSE IF g.v = None
       THEN Ok(<<Violation(name, "semantic", output_field.s,
                           "Field '" \o output_field.s \o "' not found in output",
                           "warning", None, None, idx)>>)
       ELSE IF context_text = None
       THEN Ok(<<Violation(name, "semantic", output_field.s,
                           "Context field '" \o context_field.s
                               \o "' not provided - cannot run semantic check",
                           "warning", StrV(Fmt(g.v)), None, idx)>>)
       ELSE IF e.semantic = "error"
       THEN Ok(<<Violation(name, "semantic", output_field.s, "Semantic validation error",
                           "warning", StrV(Fmt(g.v)), None, idx)>>)
       ELSE IF e.semantic = "contradiction"
       THEN Ok(<<Violation(name, "semantic", output_field.s,
                           "Semantic contradiction detected",
                           RuleSeverity(rule, "error"), StrV(Fmt(g.v)),
                           StrV("Alignment >= min_alignment"), idx)>>)
       ELSE Ok(<<>>)

\* RuleEngine._validate_web_verify; env.web is "nokey" without TAVILY_API_KEY,
\* else what WebVerifier.verify does
ValidateWebVerify(out, rule, e, idx) ==
    LET field == RGet(rule, "field")
        name == RuleName(rule, Fmt(field) \o "_web_verify")
        g == GetNestedValue(out, field)
    IN IF ~Truthy(field)
       THEN Ok(<<Violation(name, "reference", "unknown",
                           "web_verify rule must specify 'field'",
                           "warning", None, None, idx)>>)
       ELSE IF g.raised THEN Raised
       ELSE IF g.v = None
       THEN Ok(<<Violation(name, "reference", field.s,
                           "Field '" \o field.s \o "' not found in output - cannot run web_verify",
                           "warning", None, None, idx)>>)
       ELSE IF e.web = "nokey"
       THEN Ok(<<Violation(name, "reference", field.s,
                           "web_verify rule requires TAVILY_API_KEY in .env",
                           "warning", StrV(Fmt(g.v)), None, idx)>>)
       ELSE IF e.web = "error"
       THEN Ok(<<Violation(name, "reference", field.s, "Web verification error",
                           "warning", StrV(Fmt(g.v)), None, idx)>>)
       ELSE IF e.web = "unavailable"
       THEN Ok(<<Violation(name, "reference", field.s, "Web search unavailable",
                           "warning", StrV(Fmt(g.v)), None, idx)>>)
       ELSE IF e.web = "low"
       THEN Ok(<<Violation(name, "reference", field.s, "Web grounding confidence low",
                           RuleSeverity(rule, "error"), StrV(Fmt(g.v)),
                           StrV("Web confidence >= threshold"), idx)>>)
       ELSE Ok(<<>>)

\* RuleEngine._validate_anomaly_ml; env.ml is "untrained" when no model is
\* cached or loadable for the organization, else what score() decides.  The
\* messages stop before the score and the advice the code appends to them.
ValidateAnomalyMl(out, rule, ctx, e, idx) ==
    LET fields == RGet(rule, "fields")
        name == RuleName(rule, "anomaly_ml_check")
        rule_org == RGet(rule, "org_id")
        org_id == IF ~Truthy(rule_org) /\ Truthy(ctx)
                  THEN IF Truthy(DictGet(ctx, "org_id")) THEN DictGet(ctx, "org_id")
                       ELSE DictGet(ctx, "organization_id")
                  ELSE rule_org
    IN IF ~Truthy(org_id)
       THEN Ok(<<Violation(name, "statistical", "*",
                           "anomaly_ml rule requires 'org_id' in the rule or context",
                           "warning", None, None, idx)>>)
       ELSE IF ~Truthy(fields)
       THEN Ok(<<Violation(name, "statistical", "*",
                           "anomaly_ml rule must specify 'fields'",
                           "warning", None, None, idx)>>)
       ELSE IF e.ml = "untrained"
       THEN Ok(<<Violation(name, "statistical", "*",
                           "IsolationForest model not yet trained for org='"
                               \o Fmt(org_id) \o "'",
                           "warning", None, None, idx)>>)
       ELSE IF e.ml = "anomaly"
       THEN Ok(<<Violation(name, "statistical", Join(fields.l),
                           "ML anomaly detected for org='" \o Fmt(org_id) \o "'",
                           RuleSeverity(rule, "warning"), None,
                           StrV("Normal range learned from historical data"), idx)>>)
       ELSE Ok(<<>>)

\* ConnectorResult(exists=..., detail=...): latency_ms has its default 0
ConnectorResult(exists, detail) ==
    [raised |-> FALSE, exists |-> exists, detail |-> detail, latency_ms |-> 0]

\* the try block of check around  await connector(value, **params);
\* env.connector is what the connector does: it returns ("exists",
\* "missing"), raises httpx.TimeoutException ("timeout") or raises another
\* Exception with the text env.error ("raises")
AwaitConnector(connector_name, timeout, e) ==
    CASE e.connector = "exists" -> ConnectorResult(TRUE, "found")
      [] e.connector = "missing" -> ConnectorResult(FALSE, "not found")
      [] e.connector = "timeout" ->
            ConnectorResult(FALSE, "Connector '" \o connector_name \o "' timed out after "
                                       \o Fmt(FloatV(timeout)) \o "s")
      [] e.connector = "raises" ->
            ConnectorResult(FALSE, "Connector '" \o connector_name \o "' error: " \o e.error)

\* the latency left at its default when the connector failed
SetLatencyOnSuccess(r, e) == IF r.exists THEN [r EXCEPT !.latency_ms = e.elapsed_ms] ELSE r

\* result.latency_ms = int((time.monotonic() - t0) * 1000), after the try block
SetLatency(r, e) == [r EXCEPT !.latency_ms = e.elapsed_ms]

\* ExternalReferenceValidator.check; raised stands for the KeyError of a
\* name that is not registered
ConnectorCheck(connector_name, timeout, e) ==
    IF e.connector = "unregistered"
    THEN [raised |-> TRUE, exists |-> FALSE, detail |-> "", latency_ms |-> 0]
    ELSE SetLatency(AwaitConnector(connector_name, timeout, e), e)

\* RuleEngine._validate_external_ref; env.connector is "unregistered" or what
\* the connector does
ValidateExternalRef(out, rule, e, idx) ==
    LET field == RGet(rule, "field")
        connector_name == RGetOr(rule, "connector", StrV(""))
        name == RuleName(rule, Fmt(field) \o "_external_ref")
        timeout == ToFloat(RGetOr(rule, "timeout", FloatV(10)))
        g == GetNestedValue(out, field)
    IN IF ~timeout.ok THEN Raised
       ELSE IF ~Truthy(field)
       THEN Ok(<<Violation(name, "reference", "unknown",
                           "external_ref rule must specify 'field'",
                           "warning", None, None, idx)>>)
       ELSE IF ~Truthy(connector_name)
       THEN Ok(<<Violation(name, "reference", field.s,
                           "external_ref rule must specify 'connector'",
                           "warning", None, None, idx)>>)
       ELSE IF g.raised THEN Raised
       ELSE IF e.connector = "unregistered"
       THEN Ok(<<Violation(name, "reference", field.s,
                           "Connector '" \o Fmt(connector_name) \o "' is not registered.",
                           "warning", g.v, None, idx)>>)
       ELSE IF ~ConnectorCheck(Fmt(connector_name), timeout.n, e).exists
       THEN Ok(<<Violation(name, "reference", field.s,
                           IF Truthy(RGet(rule, "message")) THEN RGet(rule, "message").s
                           ELSE "External reference check failed (" \o Fmt(connector_name)
                                    \o "): "
                                    \o ConnectorCheck(Fmt(connector_name), timeout.n, e).detail,
                           RuleSeverity(rule, "error"), g.v,
                           StrV("Connector '" \o Fmt(connector_name)
                                \o "' must return exists=True"), idx)>>)
       ELSE Ok(<<>>)

\* the dispatch with a final else branch that evaluates the rule as a range
EvaluateRuleFallThrough(out, rule, ctx, e, idx) ==
    LET rule_type == RGet(rule, "type")
    IN CASE rule_type = StrV("constraint") -> ValidateConstraint(out, rule, idx)
         [] rule_type = StrV("pattern") -> ValidatePattern(out, rule, idx)
         [] rule_type = StrV("semantic") -> ValidateSemantic(out, rule, ctx, e, idx)
         [] rule_type = StrV("web_verify") -> ValidateWebVerify(out, rule, e, idx)
         [] rule_type = StrV("anomaly_ml") -> ValidateAnomalyMl(out, rule, ctx, e, idx)
         [] rule_type = StrV("enum") -> ValidateEnum(out, rule, idx)
         [] rule_type = StrV("required") -> ValidateRequired(out, rule, idx)
         [] rule_type = StrV("external_ref") -> ValidateExternalRef(out, rule, e, idx)
         [] rule_type \in {StrV("schema"), StrV("reference")} -> Ok(<<>>)
         [] OTHER -> ValidateRange(out, rule, idx)

\* the dispatch of RuleEngine.validate on rule.get('type')
EvaluateRule(out, rule, ctx, e, idx) ==
    LET rule_type == RGet(rule, "type")
    IN CASE rule_type = StrV("range") -> ValidateRange(out, rule, idx)
         [] rule_type = StrV("constraint") -> ValidateConstraint(out, rule, idx)
         [] rule_type = StrV("pattern") -> ValidatePattern(out, rule, idx)
         [] rule_type = StrV("semantic") -> ValidateSemantic(out, rule, ctx, e, idx)
         [] rule_type = StrV("web_verify") -> ValidateWebVerify(out, rule, e, idx)
         [] rule_type = StrV("anomaly_ml") -> ValidateAnomalyMl(out, rule, ctx, e, idx)
         [] rule_type = StrV("enum") -> ValidateEnum(out, rule, idx)
         [] rule_type = StrV("required") -> ValidateRequired(out, rule, idx)
         [] rule_type = StrV("external_ref") -> ValidateExternalRef(out, rule, e, idx)
         [] OTHER -> Ok(<<>>)

RECURSIVE RuleEngineLoop(_, _, _, _, _)
RuleEngineLoop(out, rs, ctx, e, i) ==
    IF i > Len(rs) THEN Ok(<<>>)
    ELSE LET r == EvaluateRule(out, rs[i], ctx, e, i)
             rest == RuleEngineLoop(out, rs, ctx, e, i + 1)
         IN IF r.raised \/ rest.raised THEN Raised ELSE Ok(r.vs \o rest.vs)

\* RuleEngine.validate
RuleEngineValidate(out, rs, ctx, e) == RuleEngineLoop(out, rs, ctx, e, 1)

----------------------------------------------------------------------------
(* Schema Validator *)

\* the JSON Schema type check of jsonschema
IsJsonType(v, ty) ==
    CASE ty = "integer" -> v.t \in {"int", "float"}
      [] ty = "number" -> v.t \in {"int", "float"}
      [] ty = "string" -> v.t = "str"
      [] ty = "boolean" -> v.t = "bool"
      [] ty = "array" -> v.t = "list"
      [] ty = "object" -> v.t = "dict"
      [] ty = "null" -> v.t = "none"
      [] OTHER -> FALSE

\* jsonschema.validate(instance, schema) for the schemas of the model: an
\* object schema with one typed property or one required key.  err = FALSE
\* when the instance conforms.
JsonSchemaError(inst, schema) ==
    LET props == DictGetOr(schema, "properties", EmptyDict)
        required == DictGetOr(schema, "required", ListV(<<>>))
        bad_props == {f \in DOMAIN props.d :
                        /\ f \in DOMAIN inst.d
                        /\ ~IsJsonType(inst.d[f], DictGet(props.d[f], "type").s)}
        missing == {i \in 1..Len(required.l) : required.l[i].s \notin DOMAIN inst.d}
    IN IF bad_props # {}
       THEN LET f == CHOOSE x \in bad_props : TRUE
            IN [err |-> TRUE, path |-> f, instance |-> inst.d[f],
                message |-> Repr(inst.d[f]) \o " is not of type "
                            \o Repr(DictGet(props.d[f], "type")),
                schema |-> "{'type': " \o Repr(DictGet(props.d[f], "type")) \o "}"]
       ELSE IF missing # {}
       THEN LET i == CHOOSE x \in missing : \A y \in missing : x <= y
            IN [err |-> TRUE, path |-> "root", instance |-> inst,
                message |-> Repr(required.l[i]) \o " is a required property",
                schema |-> Fmt(schema)]
       ELSE [err |-> FALSE, path |-> "", instance |-> None, message |-> "", schema |-> ""]

RECURSIVE SchemaLoop(_, _, _)
SchemaLoop(out, rs, i) ==
    IF i > Len(rs) THEN <<>>
    ELSE LET rule == rs[i]
             schema == RGet(rule, "schema")
             e == JsonSchemaError(out, schema)
             here == IF RGet(rule, "type") # StrV("schema") \/ ~Truthy(schema) THEN <<>>
                     ELSE IF e.err
                     THEN <<Violation(RuleName(rule, "schema_check"), "schema", e.path,
                                      e.message, RuleSeverity(rule, "error"), e.instance,
                                      StrV(e.schema), i)>>
                     ELSE <<>>
         IN here \o SchemaLoop(out, rs, i + 1)

\* SchemaValidator.validate
SchemaValidate(out, rs) == SchemaLoop(out, rs, 1)

----------------------------------------------------------------------------
(* Context Manager: reference rules *)

\* ReferenceRule(**rule_dict) parses: name, field, table and column are given
ReferenceRuleParses(rule) ==
    \A k \in {"name", "field", "table", "column"} : RGet(rule, k).t = "str"

RECURSIVE WalkField(_, _)
\* ContextManager._get_nested_field
WalkField(v, keys) ==
    IF keys = <<>> THEN v
    ELSE IF v.t = "dict"
    THEN IF DictGet(v, Head(keys)) = None THEN None
         ELSE WalkField(DictGet(v, Head(keys)), Tail(keys))
    ELSE None

\* ContextManager._check_reference_exists: a failing query is rolled back and
\* reported as False
CheckReferenceExists(e) == e.db = "exists"

\* ContextManager._validate_reference, as a sequence of zero or one violation
ValidateReference(out, rule, e, idx) ==
    LET field == rule["field"].s
        field_value == WalkField(out, Split(field, "."))
        severity == RuleSeverity(rule, "error")
        custom == RGet(rule, "custom_message")
    IN IF field_value = None
       THEN <<Violation(rule["name"].s, "reference", field,
                        IF Truthy(custom) THEN custom.s
                        ELSE "Field '" \o field \o "' not found in output",
                        severity, None, None, idx)>>
       ELSE IF ~CheckReferenceExists(e)
       THEN <<Violation(rule["name"].s, "reference", field,
                        IF Truthy(custom) THEN custom.s
                        ELSE field \o "=" \o Fmt(field_value) \o " does not exist in "
                             \o rule["table"].s \o "." \o rule["column"].s,
                        severity, field_value, None, idx)>>
       ELSE <<>>

RECURSIVE ReferenceLoop(_, _, _, _)
ReferenceLoop(out, rs, e, i) ==
    IF i > Len(rs) THEN <<>>
    ELSE LET rule == rs[i]
             here == IF RGet(rule, "type") # StrV("reference") THEN <<>>
                     ELSE IF ReferenceRuleParses(rule) THEN ValidateReference(out, rule, e, i)
                     ELSE <<Violation(RGetOr(rule, "name", StrV("unknown")).s, "reference",
                                      RGetOr(rule, "field", StrV("unknown")).s,
                                      "Rule parsing error", "error", None, None, i)>>
         IN here \o ReferenceLoop(out, rs, e, i + 1)

\* ContextManager.validate_references
ValidateReferences(out, rs, e) == ReferenceLoop(out, rs, e, 1)

----------------------------------------------------------------------------
(* Auto-Corrector *)

\* the result of CorrectionStrategy.fix: raised, or (document, description)
FixOk(doc, desc) == [raised |-> FALSE, doc |-> doc, desc |-> desc]
FixRaised == [raised |-> TRUE, doc |-> None, desc |-> ""]

\* _get_field_value of the three strategies
GetFieldValue(data, field) == Walk(data, Split(field, "."))

RECURSIVE SetNested(_, _, _)
\* the loop of _set_field_value; raised stands for the TypeError of a
\* membership test or an item assignment on a value that is not a dict
SetNested(target, keys, value) ==
    IF target.t # "dict" THEN [raised |-> TRUE, doc |-> None]
    ELSE IF Len(keys) = 1 THEN [raised |-> FALSE, doc |-> DictSet(target, Head(keys), value)]
    ELSE LET key == Head(keys)
             child == IF key \in DOMAIN target.d THEN target.d[key] ELSE EmptyDict
             sub == SetNested(child, Tail(keys), value)
         IN IF sub.raised THEN [raised |-> TRUE, doc |-> None]
            ELSE [raised |-> FALSE, doc |-> DictSet(target, key, sub.doc)]

\* _set_field_value of the three strategies
SetFieldValue(data, field, value) == SetNested(data, Split(field, "."), value)

\* the position after an optional occurrence of the character c at position i
OptionalEnd(s, i, c) == IF i <= Len(s) /\ Char(s, i) = c THEN i + 1 ELSE i

\* \d+\.?\d*  from j0 on, the first run of digits ending before j1; 0 when none
DigitsDotDigitsEnd(s, j0, j1) ==
    IF j1 = j0 THEN 0 ELSE DigitsEnd(s, OptionalEnd(s, j1, "."))

\* the end of a match of  -?\d+\.?\d*  at position i of s, 0 when none
NumberEnd(s, i) ==
    DigitsDotDigitsEnd(s, OptionalEnd(s, i, "-"), DigitsEnd(s, OptionalEnd(s, i, "-")))

NoMatch == [ok |-> FALSE, lo |-> "", hi |-> ""]

\* the second group (-?\d+\.?\d*) from c0 to c1
MatchSecondNumber(s, lo, c0, c1) ==
    IF c1 # 0 THEN [ok |-> TRUE, lo |-> lo, hi |-> SubSeq(s, c0, c1 - 1)] ELSE NoMatch

\* and\s+  from b0 on, the whitespace ending before c0
MatchAnd(s, lo, b0, c0) ==
    IF SubSeq(s, b0, b0 + 2) = "and" /\ c0 > b0 + 3
    THEN MatchSecondNumber(s, lo, c0, NumberEnd(s, c0))
    ELSE NoMatch

\* \s+  from a1 on, ending before b0
MatchSpaceAfterNumber(s, lo, a1, b0) ==
    IF b0 > a1 THEN MatchAnd(s, lo, b0, SpaceEnd(s, b0 + 3)) ELSE NoMatch

\* the first group (-?\d+\.?\d*) from a0 to a1
MatchFirstNumber(s, a0, a1) ==
    IF a1 # 0
    THEN MatchSpaceAfterNumber(s, SubSeq(s, a0, a1 - 1), a1, SpaceEnd(s, a1))
    ELSE NoMatch

\* \s+  after the word, from position i + 7 on, ending before a0
MatchSpaceAfterWord(s, i, a0) ==
    IF a0 > i + 7 THEN MatchFirstNumber(s, a0, NumberEnd(s, a0)) ELSE NoMatch

\* a match of  between\s+(-?\d+\.?\d*)\s+and\s+(-?\d+\.?\d*)  at position i
BetweenAt(s, i) ==
    IF SubSeq(s, i, i + 6) = "between"
    THEN MatchSpaceAfterWord(s, i, SpaceEnd(s, i + 7))
    ELSE NoMatch

\* the leftmost of the positions where the expression matches
FirstOf(s, hits) ==
    IF hits = {} THEN NoMatch
    ELSE BetweenAt(s, CHOOSE i \in hits : \A j \in hits : i <= j)

\* re.findall(...)[0], ok = FALSE when there is no match
FirstBetween(s) ==
    FirstOf(s, {i \in 1..Len(s) : i + 6 <= Len(s) /\ BetweenAt(s, i).ok})

\* RangeClampingStrategy._extract_range: (min, max) as floats; ok = FALSE for
\* (None, None), raised when float() of a hint value raises.  The numbers of
\* the model are integers, so a captured group is an integer numeral.
FloatPair(lo, hi) ==
    IF lo.ok /\ hi.ok
    THEN [raised |-> FALSE, ok |-> TRUE, min |-> lo.n, max |-> hi.n]
    ELSE [raised |-> TRUE, ok |-> FALSE, min |-> 0, max |-> 0]

\* the second method of _extract_range: the violation's expected_value
RangeOfHint(ev) ==
    IF ev.t = "dict" /\ DictGet(ev, "min") # None /\ DictGet(ev, "max") # None
    THEN FloatPair(ToFloat(DictGet(ev, "min")), ToFloat(DictGet(ev, "max")))
    ELSE [raised |-> FALSE, ok |-> FALSE, min |-> 0, max |-> 0]

\* the first method of _extract_range: the match m of the message
RangeOfMatch(m, ev) ==
    IF m.ok /\ IsNumeral(m.lo) /\ IsNumeral(m.hi)
    THEN [raised |-> FALSE, ok |-> TRUE,
          min |-> NumeralValue(m.lo), max |-> NumeralValue(m.hi)]
    ELSE RangeOfHint(ev)

ExtractRange(v) == RangeOfMatch(FirstBetween(v.message), v.expected_value)

RangeCanFix(v) ==
    \/ Contains(Lower(v.rule_name), "range")
    \/ Contains(Lower(v.message), "must be between")

\* the values Python orders against a float
IsNumeric(v) == v.t \in {"int", "float", "bool"}
Num(v) == IF v.t = "bool" THEN (IF v.b THEN 1 ELSE 0) ELSE v.n

\* min(min_val, max(max_val, current_value)): the bounds exchanged
ClampSwapped(min_val, max_val, current) ==
    LET inner == IF Num(current) > max_val THEN current ELSE FloatV(max_val)
    IN IF Num(inner) < min_val THEN inner ELSE FloatV(min_val)

\* max(min_val, min(max_val, current_value)) with Python's choice of operand
Clamp(min_val, max_val, current) ==
    LET inner == IF Num(current) < max_val THEN current ELSE FloatV(max_val)
    IN IF Num(inner) > min_val THEN inner ELSE FloatV(min_val)

\* the assignment of the clamped value and the description of the fix
RangeSet(field, r, current, clamped, set) ==
    IF set.raised THEN FixRaised
    ELSE FixOk(set.doc,
               "Clamped " \o field \o " from " \o Fmt(current) \o " to "
                   \o Fmt(clamped) \o " (range: " \o Fmt(FloatV(r.min)) \o "-"
                   \o Fmt(FloatV(r.max)) \o ")")

\* the body of RangeClampingStrategy.fix once the range and the value are read
RangeClamp(doc, field, r, current, clamped) ==
    IF r.raised THEN FixRaised
    ELSE IF r.ok /\ current # None
    THEN IF ~IsNumeric(current) THEN FixRaised
         ELSE RangeSet(field, r, current, clamped, SetFieldValue(doc, field, clamped))
    ELSE FixOk(doc, "Could not auto-correct range violation")

\* the read of the range and of the current value
RangeRead(doc, field, r, current) ==
    RangeClamp(doc, field, r, current, Clamp(r.min, r.max, current))

\* RangeClampingStrategy.fix
RangeFix(doc, v) == RangeRead(doc, v.field, ExtractRange(v), GetFieldValue(doc, v.field))

TypeCanFix(v) == v.violation_type = "schema" /\ Contains(Lower(v.message), "type")

\* TypeCoercionStrategy._extract_expected_type, "" for None
ExpectedTypeIn(message) ==
    IF Contains(message, "integer") \/ Contains(message, "int") THEN "integer"
    ELSE IF Contains(message, "number") \/ Contains(message, "float") THEN "number"
    ELSE IF Contains(message, "string") \/ Contains(message, "str") THEN "string"
    ELSE IF Contains(message, "boolean") \/ Contains(message, "bool") THEN "boolean"
    ELSE IF Contains(message, "array") \/ Contains(message, "list") THEN "array"
    ELSE IF Contains(message, "object") \/ Contains(message, "dict") THEN "object"
    ELSE ""

ExtractExpectedType(v) == ExpectedTypeIn(Lower(v.message))

\* TypeCoercionStrategy._coerce_type; ok = FALSE when the conversion raises
AsInt(f) == [ok |-> f.ok, v |-> IntV(f.n)]
AsFloat(f) == [ok |-> f.ok, v |-> FloatV(f.n)]

CoerceType(value, target_type) ==
    CASE target_type = "integer" -> AsInt(ToFloat(value))
      [] target_type = "number" -> AsFloat(ToFloat(value))
      [] target_type = "string" -> [ok |-> TRUE, v |-> StrV(Fmt(value))]
      [] target_type = "boolean" ->
            [ok |-> TRUE,
             v |-> IF value.t = "str" THEN BoolV(Lower(value.s) \in {"true", "yes", "1"})
                   ELSE BoolV(Truthy(value))]
      [] target_type = "array" ->
            [ok |-> TRUE, v |-> IF value.t = "list" THEN value ELSE ListV(<<value>>)]
      [] target_type = "object" ->
            [ok |-> TRUE,
             v |-> IF value.t = "dict" THEN value ELSE DictV([k \in {"value"} |-> value])]
      [] OTHER -> [ok |-> TRUE, v |-> value]

\* the assignment of the coerced value and the description of the fix
TypeSet(doc, field, expected_type, current, set) ==
    IF set.raised THEN FixOk(doc, "Could not coerce type")
    ELSE FixOk(set.doc, "Coerced " \o field \o " from " \o TypeName(current)
                            \o " to " \o expected_type)

\* the try block of TypeCoercionStrategy.fix
TypeCoerce(doc, field, expected_type, current, coerced) ==
    IF ~coerced.ok THEN FixOk(doc, "Could not coerce type")
    ELSE TypeSet(doc, field, expected_type, current, SetFieldValue(doc, field, coerced.v))

\* the body of TypeCoercionStrategy.fix once the expected type is read
TypeRead(doc, field, expected_type, current) ==
    IF expected_type = "" THEN FixOk(doc, "Could not determine expected type")
    ELSE TypeCoerce(doc, field, expected_type, current, CoerceType(current, expected_type))

\* TypeCoercionStrategy.fix
TypeFix(doc, v) ==
    TypeRead(doc, v.field, ExtractExpectedType(v), GetFieldValue(doc, v.field))

TrimCanFix(v) ==
    \/ Contains(Lower(v.message), "whitespace")
    \/ Contains(Lower(v.message), "trim")

\* the assignment of the trimmed value and the description of the fix
TrimSet(field, set) ==
    IF set.raised THEN FixRaised
    ELSE FixOk(set.doc, "Trimmed whitespace from " \o field)

\* the body of StringTrimStrategy.fix once the value is read
TrimRead(doc, field, current) ==
    IF current.t = "str"
    THEN TrimSet(field, SetFieldValue(doc, field, StrV(Strip(current.s))))
    ELSE FixOk(doc, "Value is not a string")

\* StringTrimStrategy.fix
TrimFix(doc, v) == TrimRead(doc, v.field, GetFieldValue(doc, v.field))

\* AutoCorrector.__init__: self.strategies, in order
Strategies == <<"range", "type", "trim">>

CanFix(strategy, v) ==
    CASE strategy = "range" -> RangeCanFix(v)
      [] strategy = "type" -> TypeCanFix(v)
      [] strategy = "trim" -> TrimCanFix(v)

StrategyFix(strategy, doc, v) ==
    CASE strategy = "range" -> RangeFix(doc, v)
      [] strategy = "type" -> TypeFix(doc, v)
      [] strategy = "trim" -> TrimFix(doc, v)

RECURSIVE TryStrategies(_, _, _)
\* the try block around strategy.fix: r is what strategy k returned or raised
TriedStrategy(doc, v, k, r) ==
    IF r.raised THEN TryStrategies(doc, v, k + 1)
    ELSE [fixed |-> TRUE, doc |-> r.doc, desc |-> r.desc]

\* the inner loop of AutoCorrector.fix from strategy k on: the first strategy
\* that can_fix and does not raise ends the loop
TryStrategies(doc, v, k) ==
    IF k > Len(Strategies) THEN [fixed |-> FALSE, doc |-> doc, desc |-> ""]
    ELSE IF CanFix(Strategies[k], v)
    THEN TriedStrategy(doc, v, k, StrategyFix(Strategies[k], doc, v))
    ELSE TryStrategies(doc, v, k + 1)

\* every violation attempted, whatever its severity
AttemptedAny(v) == TRUE

\* the violations AutoCorrector.fix attempts
Attempted(v) == v.severity = "error"

RECURSIVE FixLoop(_, _, _, _, _)
\* the end of one pass of the outer loop: r is what the strategies did
FixLoopStep(corrected, vs, i, fixes_applied, fixed_violations, r) ==
    IF r.fixed
    THEN FixLoop(r.doc, vs, i + 1, Append(fixes_applied, r.desc), fixed_violations + 1)
    ELSE FixLoop(corrected, vs, i + 1, fixes_applied, fixed_violations)

\* the outer loop of AutoCorrector.fix from violation i on
FixLoop(corrected, vs, i, fixes_applied, fixed_violations) ==
    IF i > Len(vs)
    THEN [corrected |-> corrected, fixes |-> fixes_applied, fixed |-> fixed_violations]
    ELSE IF ~Attempted(vs[i])
    THEN FixLoop(corrected, vs, i + 1, fixes_applied, fixed_violations)
    ELSE FixLoopStep(corrected, vs, i, fixes_applied, fixed_violations,
                     TryStrategies(corrected, vs[i], 1))

\* Objects are numbered; the document the caller hands over is object 0.
CallerObject == 0

\* deepcopy(output): a new object
Deepcopy(obj) == obj + 1

\* the strategies writing into the document AutoCorrector.fix was given
WrittenObjectInPlace(obj) == obj

\* the object the writes of a correction land in: AutoCorrector.fix works on
\* a deepcopy of the document, and every strategy writes into its own
\* deepcopy of what it is handed
WrittenObject(obj) == Deepcopy(Deepcopy(obj))

\* the caller's document taking every fix
DocumentAfterFixInPlace(doc, corrected) == IF corrected # None THEN corrected ELSE doc

\* what the caller's document holds after AutoCorrector.fix returned
\* corrected: the fixes, when they were written into the caller's object
DocumentAfterFix(doc, corrected) ==
    IF corrected # None /\ WrittenObject(CallerObject) = CallerObject THEN corrected ELSE doc

\* the guard that opens AutoCorrector.fix
FixDisabled(ctx) == Truthy(ctx) /\ ~Truthy(DictGet(ctx, "auto_correct"))

\* the return of AutoCorrector.fix after the loop
FixReturn(r) ==
    IF r.fixed > 0 THEN [doc |-> r.corrected, fixes |-> r.fixes]
    ELSE [doc |-> None, fixes |-> <<>>]

\* AutoCorrector.fix: (corrected_output or None, fix descriptions)
AutoCorrectorFix(doc, vs, ctx) ==
    IF FixDisabled(ctx) THEN [doc |-> None, fixes |-> <<>>]
    ELSE FixReturn(FixLoop(doc, vs, 1, <<>>, 0))

----------------------------------------------------------------------------
(* Anomaly detector *)

\* the keys of the documents in the order the documents list them
FieldOrder == <<"count", "percentage", "user_id", "amount", "hours", "stats", "error_rate",
                "active", "fiqh_school", "timezone", "task">>

FieldPath(prefix, key) == IF prefix = "" THEN key ELSE prefix \o "." \o key

RECURSIVE ExtractFrom(_, _, _)
\* the numeric fields of one key: a number that is no bool, or the numeric
\* fields of a nested dict under the dotted path
ExtractKey(d, prefix, key) ==
    IF key \notin DOMAIN d THEN <<>>
    ELSE IF IsNumber(d[key]) THEN <<[field |-> FieldPath(prefix, key), value |-> d[key].n]>>
    ELSE IF d[key].t = "dict" THEN ExtractFrom(d[key].d, FieldPath(prefix, key), 1)
    ELSE <<>>

\* the loop of _extract_numeric_fields from key k on
ExtractFrom(d, prefix, k) ==
    IF k > Len(FieldOrder) THEN <<>>
    ELSE ExtractKey(d, prefix, FieldOrder[k]) \o ExtractFrom(d, prefix, k + 1)

\* AnomalyDetector._extract_numeric_fields: (path, float(value)) in key order
ExtractNumericFields(data) == ExtractFrom(data.d, "", 1)

RECURSIVE IsPowerOfTen(_)
\* value > 0 and value == 10 ** int(math.log10(value)), for a whole value
IsPowerOfTen(value) ==
    /\ value > 0
    /\ value = 1 \/ (value % 10 = 0 /\ IsPowerOfTen(value \div 10))

\* AnomalyDetector._is_suspicious_round_number
IsSuspiciousRoundNumber(value) ==
    value \in {100, 1000, 10000, 100000} \/ IsPowerOfTen(value)

\* suspicious_patterns["placeholder_values"]
PlaceholderValues == {0, 1, 0 - 1, 999, 9999}

RoundNumberViolation(field, value) ==
    IF IsSuspiciousRoundNumber(value)
    THEN <<Violation("auto_pattern_round_number", "statistical", field,
                     field \o " has a suspiciously round value (" \o Fmt(FloatV(value))
                         \o ") - possible AI hallucination",
                     "warning", FloatV(value), None, 0)>>
    ELSE <<>>

PlaceholderViolation(field, value) ==
    IF value \in PlaceholderValues
    THEN <<Violation("auto_pattern_placeholder", "statistical", field,
                     field \o " contains a common placeholder value (" \o Fmt(FloatV(value)) \o ")",
                     "warning", FloatV(value), None, 0)>>
    ELSE <<>>

PercentageViolation(field, value) ==
    IF (Contains(Lower(field), "percent") \/ Contains(Lower(field), "rate"))
          /\ (value > 100 \/ value < 0)
    THEN <<Violation("auto_pattern_invalid_percentage", "statistical", field,
                     field \o " has an invalid percentage value (" \o Fmt(FloatV(value)) \o "%)",
                     "error", FloatV(value),
                     DictV([min |-> IntV(0), max |-> IntV(100)]), 0)>>
    ELSE <<>>

RECURSIVE PatternLoop(_, _)
\* the loop of _detect_common_patterns from numeric field i on
PatternLoop(numeric_fields, i) ==
    IF i > Len(numeric_fields) THEN <<>>
    ELSE RoundNumberViolation(numeric_fields[i].field, numeric_fields[i].value)
            \o PlaceholderViolation(numeric_fields[i].field, numeric_fields[i].value)
            \o PercentageViolation(numeric_fields[i].field, numeric_fields[i].value)
            \o PatternLoop(numeric_fields, i + 1)

\* AnomalyDetector._detect_common_patterns
DetectCommonPatterns(out) == PatternLoop(ExtractNumericFields(out), 1)

\* the rules detect_anomalies checks against historical data
AnomalyRules(rs) == SelectSeq(rs, LAMBDA r : RGet(r, "type") = StrV("anomaly"))

\* AnomalyDetector.detect_anomalies, for rule lists without anomaly rules
DetectAnomalies(out, rs, ctx) ==
    (CASE AnomalyRules(rs) = <<>> -> <<>>)
        \o (IF Truthy(ctx) /\ Truthy(DictGet(ctx, "auto_detect_anomalies"))
            THEN DetectCommonPatterns(out) ELSE <<>>)

\* step 4 of ValidationEngine.validate: the engine has an anomaly detector
\* only when it was built with a database session
AnomalyStep(out, rs, ctx, db) ==
    IF db /\ Truthy(ctx) /\ Truthy(DictGet(ctx, "detect_anomalies"))
    THEN DetectAnomalies(out, rs, ctx)
    ELSE <<>>

----------------------------------------------------------------------------
(* Validation Orchestrator *)

NoResult == [raised |-> FALSE, status |-> "none"]

Count(vs, severity) == Cardinality({i \in 1..Len(vs) : vs[i].severity = severity})

\* the three stages with the business rules collected before the schema rules
CollectViolationsRulesFirst(out, rs, ctx, db, e) ==
    LET schema_violations == SchemaValidate(out, rs)
        rule_violations == RuleEngineValidate(out, rs, ctx, e)
        ref_violations == IF db THEN ValidateReferences(out, rs, e) ELSE <<>>
    IN IF rule_violations.raised THEN Raised
       ELSE Ok(rule_violations.vs \o schema_violations \o ref_violations
                   \o AnomalyStep(out, rs, ctx, db))

\* steps 1-4 of ValidationEngine.validate: schema, business rules,
\* references, anomalies
CollectViolations(out, rs, ctx, db, e) ==
    LET schema_violations == SchemaValidate(out, rs)
        rule_violations == RuleEngineValidate(out, rs, ctx, e)
        ref_violations == IF db THEN ValidateReferences(out, rs, e) ELSE <<>>
    IN IF rule_violations.raised THEN Raised
       ELSE Ok(schema_violations \o rule_violations.vs \o ref_violations
                   \o AnomalyStep(out, rs, ctx, db))

\* the status with any violation, also an info, counted as a warning
StatusInfoAsWarning(violations) ==
    LET error_count == Count(violations, "error")
    IN IF violations = <<>> THEN "passed"
       ELSE IF error_count = 0 THEN "warning"
       ELSE "failed"

\* the status ValidationEngine.validate derives from the severities
Status(violations) ==
    LET error_count == Count(violations, "error")
        warning_count == Count(violations, "warning")
    IN IF error_count = 0 /\ warning_count = 0 THEN "passed"
       ELSE IF error_count = 0 /\ warning_count > 0 THEN "warning"
       ELSE "failed"

\* step 5 of ValidationEngine.validate: auto-correction
AutoCorrect(out, violations, ctx) ==
    IF violations # <<>> /\ Truthy(ctx) /\ Truthy(DictGet(ctx, "auto_correct"))
    THEN AutoCorrectorFix(out, violations, ctx)
    ELSE [doc |-> None, fixes |-> <<>>]

\* the ValidationResult built from the violations and the correction; the
\* empty corrections_applied stands for the None the code returns for []
BuildResult(violations, fix) ==
    [raised |-> FALSE,
     status |-> Status(violations),
     is_valid |-> Count(violations, "error") = 0,
     violations |-> violations,
     auto_corrected |-> fix.doc # None,
     corrected_output |-> fix.doc,
     corrections_applied |-> fix.fixes]

\* ValidationEngine.validate after steps 1-3
ValidateFrom(out, ctx, collected) ==
    IF collected.raised THEN [raised |-> TRUE, status |-> "none"]
    ELSE BuildResult(collected.vs, AutoCorrect(out, collected.vs, ctx))

\* ValidationEngine.validate
ValidationEngineValidate(out, rs, ctx, db, e) ==
    ValidateFrom(out, ctx, CollectViolations(out, rs, ctx, db, e))

----------------------------------------------------------------------------
(* ML anomaly detector *)

LowerChars == {Char(LowerAlpha, i) : i \in 1..26}

\* c.isalnum() for the characters of the model
IsAlnum(c) == c \in UpperChars \cup LowerChars \cup Digits

RECURSIVE Sanitize(_)
\* "".join(c if c.isalnum() or c in "-_" else "_" for c in org_id)
Sanitize(s) ==
    IF s = "" THEN ""
    ELSE (IF IsAlnum(Char(s, 1)) \/ Char(s, 1) \in {"-", "_"} THEN Char(s, 1) ELSE "_")
            \o Sanitize(Tail(s))

\* MLAnomalyDetector._model_path, inside the model directory
ModelPath(org_id) == "if_" \o Sanitize(org_id) \o ".joblib"

\* an int above the range of a float, such as 10**400
HugeInt == [t |-> "hugeint"]

\* one cell of _vectorize: float(val), nan for None and for a ValueError or
\* TypeError; the OverflowError of an int too large for a float is not caught
CellRaises(val) == val = HugeInt

\* MLAnomalyDetector._vectorize: none stands for the None of no rows, n is
\* the number of rows of the matrix
Vectorize(samples, fields) ==
    [raised |-> \E i \in 1..Len(samples) : \E j \in 1..Len(fields) :
                    CellRaises(GetFieldValue(samples[i], fields[j])),
     none |-> samples = <<>>,
     n |-> Len(samples)]

\* MLAnomalyDetector.is_trained
IsTrained(ms, org_id) == ms[org_id] # None

\* the dict train stores for an organization; trained_for is the organization
\* whose train call fitted the model, which the code does not store
StoredModel(org_id, fields, n) ==
    [t |-> "model", trained_for |-> org_id, fields |-> fields, n_samples |-> n]

\* TrainingResult, with the state the call leaves behind
TrainingResult(org_id, success, n_samples, message, ms, st) ==
    [op |-> "train", raised |-> FALSE, org_id |-> org_id, success |-> success,
     n_samples |-> n_samples, message |-> message, models |-> ms, store |-> st]

TrainRaised(org_id, ms, st) ==
    [op |-> "train", raised |-> TRUE, org_id |-> org_id, success |-> FALSE,
     n_samples |-> 0, message |-> "", models |-> ms, store |-> st]

\* _save without its try block: a failed write raises
SaveUnguarded(st, org_id, model, write_ok) ==
    [raised |-> ~write_ok,
     store |-> IF write_ok THEN [st EXCEPT ![ModelPath(org_id)] = model] ELSE st]

\* MLAnomalyDetector._save: a failed write is logged
Save(st, org_id, model, write_ok) ==
    [raised |-> FALSE,
     store |-> IF write_ok THEN [st EXCEPT ![ModelPath(org_id)] = model] ELSE st]

\* the try block of train after the model is installed: _save, then the result
TrainSaved(ms, org_id, samples, n, fields, saved) ==
    IF saved.raised
    THEN TrainingResult(org_id, FALSE, Len(samples), "Training failed: write failed",
                        ms, saved.store)
    ELSE TrainingResult(org_id, TRUE, n,
                        "IsolationForest trained on " \o ToString(n) \o " samples, "
                            \o ToString(Len(fields)) \o " features.",
                        ms, saved.store)

\* the try block of train: fit, install, save
TrainFit(ms, st, org_id, samples, fields, x, fit_ok, write_ok) ==
    IF ~fit_ok
    THEN TrainingResult(org_id, FALSE, Len(samples), "Training failed: fit failed", ms, st)
    ELSE TrainSaved([ms EXCEPT ![org_id] = StoredModel(org_id, fields, x.n)],
                    org_id, samples, x.n, fields,
                    Save(st, org_id, StoredModel(org_id, fields, x.n), write_ok))

\* train after _vectorize
TrainOn(ms, st, org_id, samples, fields, x, fit_ok, write_ok) ==
    IF x.raised THEN TrainRaised(org_id, ms, st)
    ELSE IF x.none \/ x.n < 2
    THEN TrainingResult(org_id, FALSE, Len(samples),
                        "Not enough numeric samples to train (" \o ToString(Len(samples))
                            \o " rows). Need >= 2.", ms, st)
    ELSE TrainFit(ms, st, org_id, samples, fields, x, fit_ok, write_ok)

\* MLAnomalyDetector.train; fit_ok and write_ok are what IsolationForest.fit
\* and joblib.dump do
MlTrain(ms, st, org_id, samples, fields, fit_ok, write_ok) ==
    TrainOn(ms, st, org_id, samples, fields, Vectorize(samples, fields), fit_ok, write_ok)

\* MLAnomalyDetector._load: False when the file is absent or cannot be read
Load(ms, st, org_id, read_ok) ==
    IF st[ModelPath(org_id)] = None \/ ~read_ok
    THEN [raised |-> FALSE, ok |-> FALSE, models |-> ms]
    ELSE [raised |-> FALSE, ok |-> TRUE,
          models |-> [ms EXCEPT ![org_id] = st[ModelPath(org_id)]]]

\* MLAnomalyScore, with the state the call leaves behind; used is the stored
\* model that scored the sample, None when none did
MLAnomalyScore(org_id, is_anomaly, reason, used, ms) ==
    [op |-> "score", raised |-> FALSE, org_id |-> org_id, is_anomaly |-> is_anomaly,
     reason |-> reason, used |-> used, models |-> ms]

ScoreRaised(org_id, ms) ==
    [op |-> "score", raised |-> TRUE, org_id |-> org_id, is_anomaly |-> FALSE,
     reason |-> "", used |-> None, models |-> ms]

\* score with a stored model: vectorize, decision_function
ScoreWith(ms, org_id, sample, anomalous) ==
    IF Vectorize(<<sample>>, ms[org_id].fields).raised THEN ScoreRaised(org_id, ms)
    ELSE MLAnomalyScore(org_id, anomalous,
                        "IsolationForest score: "
                            \o (IF anomalous THEN "ANOMALY detected (score < 0)"
                                ELSE "normal (score >= 0)"),
                        ms[org_id], ms)

\* score after the lazy load
ScoreLoaded(ms, org_id, sample, anomalous, loaded) ==
    IF loaded.raised THEN ScoreRaised(org_id, ms)
    ELSE IF ~loaded.ok
    THEN MLAnomalyScore(org_id, FALSE, "Model not trained yet", None, ms)
    ELSE ScoreWith(loaded.models, org_id, sample, anomalous)

\* MLAnomalyDetector.score; read_ok is what joblib.load does and anomalous
\* what the decision function of the stored model says of the sample
MlScore(ms, st, org_id, sample, read_ok, anomalous) ==
    IF IsTrained(ms, org_id) THEN ScoreWith(ms, org_id, sample, anomalous)
    ELSE ScoreLoaded(ms, org_id, sample, anomalous, Load(ms, st, org_id, read_ok))

----------------------------------------------------------------------------
(* Confidence scorer *)

\* A float between 0 and 2 is a whole number of units of 2^-56, written in
\* base 2^28 as hi * 2^28 + lo: every float of the scorer's arithmetic that
\* is met here is such a number, and the sums are rounded as IEEE 754
\* doubles are, to 53 significant bits, ties to even.
Base == 268435456

Float(hi, lo) == [hi |-> hi, lo |-> lo]

Zero == Float(0, 0)
Half == Float(134217728, 0)
One == Float(268435456, 0)
Tenth == Float(26843545, 161061274)

\* self.weights: the doubles of 0.30, 0.25, 0.15, 0.20, 0.10
Weights ==
    [violation_count |-> Float(80530636, 214748364),
     severity |-> Float(67108864, 0),
     auto_correction |-> Float(40265318, 107374182),
     statistical |-> Float(53687091, 53687092),
     reference |-> Float(26843545, 161061274)]

FloatLess(a, b) == a.hi < b.hi \/ (a.hi = b.hi /\ a.lo < b.lo)
FloatMin(a, b) == IF FloatLess(b, a) THEN b ELSE a
FloatMax(a, b) == IF FloatLess(a, b) THEN b ELSE a

\* the units of one unit in the last place of a double of this size
Ulp(x) ==
    IF x.hi >= Base THEN 16
    ELSE IF 2 * x.hi >= Base THEN 8
    ELSE IF 4 * x.hi >= Base THEN 4
    ELSE IF 8 * x.hi >= Base THEN 2
    ELSE 1

Carry(hi, lo) == Float(hi + lo \div Base, lo % Base)

\* the nearest double, ties to even
RoundTo(x, u) ==
    Carry(x.hi, u * (x.lo \div u
                        + (IF 2 * (x.lo % u) > u
                              \/ (2 * (x.lo % u) = u /\ (x.lo \div u) % 2 = 1)
                           THEN 1 ELSE 0)))

Round(x) == RoundTo(x, Ulp(x))

\* a + b
FloatAdd(a, b) == Round(Carry(a.hi + b.hi, a.lo + b.lo))

\* a - b, for b <= a
FloatSub(a, b) ==
    Round(IF a.lo >= b.lo THEN Float(a.hi - b.hi, a.lo - b.lo)
          ELSE Float(a.hi - b.hi - 1, a.lo + Base - b.lo))

\* count * x, for a small whole count
FloatTimes(count, x) == Round(Carry(count * x.hi, count * x.lo))

\* x / 2, which is exact
Halve(x) == Float(x.hi \div 2, (x.hi % 2) * (Base \div 2) + x.lo \div 2)

\* score * weight for the scores 0.0, 0.5 and 1.0, where the product is exact
TimesWeight(score, weight) ==
    CASE score = One -> weight
      [] score = Half -> Halve(weight)
      [] score = Zero -> Zero

\* ConfidenceScorer._calculate_violation_score, without violations
CalculateViolationScore(violations) == CASE violations = <<>> -> One

\* ConfidenceScorer._calculate_severity_score, without violations
CalculateSeverityScore(violations) == CASE violations = <<>> -> One

\* ConfidenceScorer._calculate_auto_correction_penalty
CalculateAutoCorrectionPenalty(auto_corrected, corrections) ==
    IF ~auto_corrected \/ ~Truthy(corrections) THEN Zero
    ELSE FloatMin(FloatTimes(Len(corrections.l), Tenth), Half)

\* the sum left unclamped
ClampConfidenceNone(x) == x

\* max(0.0, min(1.0, overall_confidence))
ClampConfidence(x) == FloatMax(Zero, FloatMin(One, x))

\* the weighted sum of calculate_confidence, added from left to right
WeightedSum(violation_score, severity_score, penalty, statistical, reference) ==
    FloatAdd(FloatAdd(FloatAdd(FloatAdd(TimesWeight(violation_score, Weights.violation_count),
                                        TimesWeight(severity_score, Weights.severity)),
                               TimesWeight(FloatSub(One, penalty), Weights.auto_correction)),
                      TimesWeight(statistical, Weights.statistical)),
             TimesWeight(reference, Weights.reference))

ConfidenceFactors(violation_score, severity_score, penalty, statistical, reference) ==
    [violation_count |-> violation_score,
     severity_score |-> severity_score,
     auto_correction_penalty |-> penalty,
     statistical_confidence |-> statistical,
     reference_confidence |-> reference,
     overall_confidence |->
         ClampConfidence(WeightedSum(violation_score, severity_score, penalty,
                                     statistical, reference))]

\* ConfidenceScorer.calculate_confidence; statistical_score is None or a float
CalculateConfidence(res, statistical_score, has_reference_violations) ==
    ConfidenceFactors(CalculateViolationScore(res.violations),
                      CalculateSeverityScore(res.violations),
                      CalculateAutoCorrectionPenalty(res.auto_corrected, res.corrections_applied),
                      IF statistical_score # None THEN statistical_score ELSE One,
                      IF has_reference_violations THEN Zero ELSE One)

\* ConfidenceScorer.get_confidence_level: the doubles of 0.9, 0.75, 0.5, 0.25
GetConfidenceLevel(x) ==
    IF ~FloatLess(x, Float(241591910, 107374184)) THEN "very_high"
    ELSE IF ~FloatLess(x, Float(201326592, 0)) THEN "high"
    ELSE IF ~FloatLess(x, Half) THEN "medium"
    ELSE IF ~FloatLess(x, Float(67108864, 0)) THEN "low"
    ELSE "very_low"

----------------------------------------------------------------------------
(* Requests *)

MaxRules == 2

RangeRule == [type |-> StrV("range"), name |-> StrV("hours_limit"),
              field |-> StrV("hours"), min |-> IntV(0), max |-> IntV(24),
              severity |-> StrV("error")]
RangeMinOnly == [type |-> StrV("range"), field |-> StrV("hours"), min |-> IntV(0)]
RangeSoft == [type |-> StrV("range"), field |-> StrV("hours"),
              min |-> IntV(0), max |-> IntV(24), severity |-> StrV("warning")]
RangeNoField == [type |-> StrV("range"), min |-> IntV(0), max |-> IntV(24)]
SchemaRule == [type |-> StrV("schema"), name |-> StrV("type_check"),
               schema |-> DictV([type |-> StrV("object"),
                                 properties |-> DictV([hours |-> DictV([type |-> StrV("number")])])])]
EnumRule == [type |-> StrV("enum"), name |-> StrV("fiqh_school_check"),
             field |-> StrV("fiqh_school"),
             valid_options |-> ListV(<<StrV("Hanafi"), StrV("Jafaria"), StrV("Shafi"),
                                       StrV("Maliki"), StrV("Hanbali")>>),
             severity |-> StrV("error")]
RequiredRule == [type |-> StrV("required"), name |-> StrV("timezone_required"),
                 field |-> StrV("timezone"), default_value |-> StrV("Asia/Dhaka"),
                 severity |-> StrV("error")]
PatternNoPattern == [type |-> StrV("pattern"), field |-> StrV("fiqh_school")]
PatternRule == [type |-> StrV("pattern"), field |-> StrV("fiqh_school"),
                pattern |-> StrV("^[0-9]+$"), severity |-> StrV("info")]
ConstraintRule == [type |-> StrV("constraint"), field |-> StrV("hours"),
                   expression |-> StrV("value > 0")]
ReferenceRule == [type |-> StrV("reference"), name |-> StrV("hours_exists"),
                  field |-> StrV("hours"), table |-> StrV("timesheets"),
                  column |-> StrV("hours")]
ReferenceNoTable == [type |-> StrV("reference"), name |-> StrV("hours_exists"),
                     field |-> StrV("hours"), column |-> StrV("hours")]
UnknownRule == [type |-> StrV("future_kind"), field |-> StrV("hours"),
                min |-> IntV(0), max |-> IntV(24)]
ExternalRefRule == [type |-> StrV("external_ref"), field |-> StrV("fiqh_school"),
                    connector |-> StrV("fiqh_registry")]
SemanticRule == [type |-> StrV("semantic"), output_field |-> StrV("fiqh_school"),
                 context_field |-> StrV("reference_text")]
WebVerifyRule == [type |-> StrV("web_verify"), field |-> StrV("fiqh_school")]
AnomalyMlRule == [type |-> StrV("anomaly_ml"), fields |-> ListV(<<StrV("hours")>>),
                  severity |-> StrV("error")]

\* the kinds the correction chain and the parse checks are about
RuleTemplates ==
    {RangeRule, RangeMinOnly, RangeSoft, RangeNoField, SchemaRule, EnumRule,
     RequiredRule, PatternNoPattern, PatternRule, ReferenceRule, ReferenceNoTable,
     UnknownRule}

\* every kind of rule
AllKindTemplates ==
    {RangeRule, RangeNoField, SchemaRule, EnumRule, RequiredRule, PatternRule,
     ConstraintRule, ReferenceRule, ReferenceNoTable, UnknownRule, ExternalRefRule,
     SemanticRule, WebVerifyRule, AnomalyMlRule}

RuleListsOf(templates) == UNION {[1..n -> templates] : n \in 0..MaxRules}

Documents ==
    {DictV([hours |-> IntV(30), fiqh_school |-> StrV("Hanafy")]),
     DictV([hours |-> IntV(0 - 5), fiqh_school |-> StrV("Sunni"), timezone |-> None]),
     DictV([hours |-> IntV(10), fiqh_school |-> StrV("Hanafi"), timezone |-> StrV("UTC")]),
     DictV([hours |-> StrV("30"), fiqh_school |-> StrV(" Hanafi ")]),
     DictV([hours |-> IntV(24), timezone |-> StrV("UTC")]),
     DictV([task |-> StrV("Development")])}

Contexts ==
    {None,
     EmptyDict,
     DictV([auto_correct |-> BoolV(TRUE)]),
     DictV([auto_correct |-> BoolV(FALSE)])}

KindDocuments ==
    {DictV([hours |-> StrV("30"), fiqh_school |-> StrV("Hanafy")]),
     DictV([hours |-> IntV(0 - 5), timezone |-> StrV("UTC")])}

KindContexts ==
    {None,
     DictV([auto_correct |-> BoolV(TRUE), org_id |-> StrV("org_a"),
            reference_text |-> StrV("Hanafi school")])}

\* the collaborators: none configured, all answering yes, all answering no
EnvNone == [semantic |-> "error", web |-> "nokey", ml |-> "untrained",
            connector |-> "unregistered", db |-> "fails",
            error |-> "", elapsed_ms |-> 0]
EnvYes == [semantic |-> "aligned", web |-> "confident", ml |-> "normal",
           connector |-> "exists", db |-> "exists",
           error |-> "", elapsed_ms |-> 7]
EnvNo == [semantic |-> "contradiction", web |-> "low", ml |-> "anomaly",
          connector |-> "missing", db |-> "missing",
          error |-> "", elapsed_ms |-> 7]

\* an engine without a database session, and engines with one
Setups ==
    {[has_db |-> FALSE, env |-> EnvNone],
     [has_db |-> TRUE, env |-> EnvYes],
     [has_db |-> TRUE, env |-> EnvNo]}

KindSetups == Setups \cup {[has_db |-> TRUE, env |-> EnvNone]}

\* the organizations of the detector calls: two whose model files share a
\* path, and one apart
Orgs == {"org_a", "org.a", "org_b"}

Paths == {ModelPath(org_id) : org_id \in Orgs}

\* the history a training call is given: empty, one row, two rows, two rows
\* of which one holds an int too large for a float
SampleLists ==
    {<<>>,
     <<DictV([hours |-> IntV(8)])>>,
     <<DictV([hours |-> IntV(8)]), DictV([hours |-> IntV(9)])>>,
     <<DictV([hours |-> IntV(8)]), DictV([hours |-> HugeInt])>>}

TrainFields == <<"hours">>

\* the document a scoring call is given
ScoredSample == DictV([hours |-> IntV(1000)])

\* a call of the detector: what it returned, and what it was given by its
\* surroundings (before: what the organization had in memory before it)
Called(ret, fit_ok, write_ok, read_ok, before) ==
    [ret |-> ret, fit_ok |-> fit_ok, write_ok |-> write_ok, read_ok |-> read_ok,
     before |-> before]

NoMlResult == Called([op |-> "none", raised |-> FALSE, org_id |-> ""], TRUE, TRUE, TRUE, None)

\* the anomaly_ml rule of an organization
AnomalyMlRuleOf(org_id) ==
    [type |-> StrV("anomaly_ml"), fields |-> ListV(<<StrV("hours")>>),
     severity |-> StrV("error"), org_id |-> StrV(org_id)]

\* what _validate_anomaly_ml meets in the detector: no model in memory and
\* none loaded, or the decision of the model
MlAnswer(ms, org_id, loaded, anomalous) ==
    IF ~IsTrained(ms, org_id) /\ ~loaded.ok THEN "untrained"
    ELSE IF anomalous THEN "anomaly" ELSE "normal"

\* the violations of an anomaly_ml rule evaluated against the detector
RuleCall(ms, org_id, sample, loaded, anomalous) ==
    [op |-> "rule", raised |-> FALSE, org_id |-> org_id,
     violations |-> ValidateAnomalyMl(sample, AnomalyMlRuleOf(org_id), None,
                                      [EnvNone EXCEPT !.ml = MlAnswer(ms, org_id, loaded, anomalous)],
                                      1).vs,
     models |-> IF IsTrained(ms, org_id) THEN ms ELSE loaded.models]

\* five corrections, as the result of a corrected document lists them
FiveCorrections ==
    ListV(<<StrV("Clamped hours"), StrV("Clamped rate"), StrV("Trimmed name"),
            StrV("Converted age"), StrV("Clamped score")>>)

\* results without violations, as calculate_confidence is given them
CleanResults ==
    {[violations |-> <<>>, auto_corrected |-> a, corrections_applied |-> c] :
        a \in BOOLEAN, c \in {None, ListV(<<>>), FiveCorrections}}

\* the statistical scores a caller supplies
StatisticalScores == {None, Zero, Half, One}

NoScoring == [res |-> NoResult, statistical_score |-> None, has_reference_violations |-> FALSE]

NoConfidence == [factors |-> None, level |-> ""]

----------------------------------------------------------------------------
(* Statistical analyzer *)

\* A float of the analyzer is a fraction n / d of whole numbers with d > 0,
\* or infinity; the values drawn are whole numbers and halves, on which the
\* double arithmetic of the code is exact.
Ratio(n, d) == [inf |-> FALSE, n |-> n, d |-> d]
Infinity == [inf |-> TRUE, n |-> 1, d |-> 1]

Abs(x) == IF x < 0 THEN 0 - x ELSE x

\* a >= b
RatioAtLeast(a, b) == ~b.inf /\ (a.inf \/ a.n * b.d >= b.n * a.d)

\* a > b
RatioExceeds(a, b) == ~b.inf /\ (a.inf \/ a.n * b.d > b.n * a.d)

\* self.z_score_threshold
ZScoreThreshold == Ratio(3, 1)

\* threshold * 1.5
TimesOneAndHalf(threshold) == Ratio(3 * threshold.n, 2 * threshold.d)

\* the z-score of detect_outlier_zscore
ZScore(value, mean, std_dev) ==
    IF std_dev = 0 THEN (IF value = mean THEN Ratio(0, 1) ELSE Infinity)
    ELSE Ratio(Abs(value - mean), Abs(std_dev))

\* the severity of detect_outlier_zscore
ZScoreSeverity(z_score, threshold) ==
    IF RatioExceeds(z_score, TimesOneAndHalf(threshold)) THEN "error"
    ELSE IF RatioExceeds(z_score, threshold) THEN "warning"
    ELSE "info"

\* OutlierDetectionResult of the z-score method
ZScoreResult(field, value, z_score, threshold) ==
    [field |-> field, value |-> value, is_outlier |-> RatioExceeds(z_score, threshold),
     method |-> "z-score", score |-> z_score, threshold |-> threshold,
     severity |-> ZScoreSeverity(z_score, threshold)]

\* StatisticalAnalyzer.detect_outlier_zscore; threshold is None or a float
DetectOutlierZscore(field, value, mean, std_dev, threshold) ==
    ZScoreResult(field, value, ZScore(value, mean, std_dev),
                 IF threshold = None THEN ZScoreThreshold ELSE threshold)

\* the calls of detect_outlier_zscore: values at, next to and far from the
\* thresholds, with and without variation in the history
ZscoreCalls ==
    {[value |-> v, mean |-> mu, std_dev |-> s, threshold |-> t, result |-> None] :
        v \in {350, 500, 600, 625, 650, 651, 725, 726, 1000},
        mu \in {500, 1000}, s \in {0, 50}, t \in {None, Ratio(2, 1), Ratio(5, 2)}}

NoZscore == [value |-> 0, mean |-> 0, std_dev |-> 0, threshold |-> None, result |-> None]

\* no call of the services around the engine has been made
ServiceIdle ==
    /\ zscore = NoZscore
    /\ organization = None
    /\ http_status = 0
    /\ threads = <<>>
    /\ limiter = <<>>
    /\ clock = 0
    /\ api_keys = <<>>

----------------------------------------------------------------------------
(* The state machine: one request, then one call *)

InitWith(documents, rule_lists, contexts, setups) ==
    /\ output \in documents
    /\ rules \in rule_lists
    /\ context \in contexts
    /\ \E s \in setups : has_db = s.has_db /\ env = s.env
    /\ pc = "ready"
    /\ result = NoResult
    /\ fix_result = [doc |-> None, fixes |-> <<>>]
    /\ check_result = ConnectorResult(FALSE, "")
    /\ waited = 0
    /\ models = [org \in Orgs |-> None]
    /\ store = [path \in Paths |-> None]
    /\ ml_result = NoMlResult
    /\ scoring = NoScoring
    /\ confidence = NoConfidence
    /\ second = NoResult
    /\ ServiceIdle

Init == InitWith(Documents, RuleListsOf(RuleTemplates), Contexts, Setups)

InitKinds == InitWith(KindDocuments, RuleListsOf(AllKindTemplates), KindContexts, KindSetups)

\* the rule is an external_ref rule whose evaluation calls the connector
CallsConnector(out, rule) ==
    /\ RGet(rule, "type") = StrV("external_ref")
    /\ ToFloat(RGetOr(rule, "timeout", FloatV(10))).ok
    /\ Truthy(RGet(rule, "field"))
    /\ Truthy(RGetOr(rule, "connector", StrV("")))
    /\ ~GetNestedValue(out, RGet(rule, "field")).raised

\* the position of the rule at which validate calls a connector that never
\* completes: the first rule that calls it, if no rule before it raises
HungRules ==
    {i \in 1..Len(rules) :
        /\ env.connector = "hangs"
        /\ CallsConnector(output, rules[i])
        /\ \A j \in 1..(i - 1) : ~CallsConnector(output, rules[j])
        /\ ~RuleEngineValidate(output, SubSeq(rules, 1, i - 1), context, env).raised}

\* the call is suspended for good in  await connector(value, **params)
Hangs == HungRules # {}

\* await engine.validate(output, rules, context), when no await is left pending
Validate ==
    /\ pc = "ready"
    /\ ~Hangs
    /\ \E r \in {ValidationEngineValidate(output, rules, context, has_db, env)} :
          /\ result' = r
          /\ pc' = IF r.raised THEN "raised" ELSE "returned"
          /\ output' = IF r.raised THEN output ELSE DocumentAfterFix(output, r.corrected_output)
    /\ UNCHANGED <<rules, context, has_db, env, fix_result, connector_vars, ml_vars, confidence_vars, second, service_vars>>

\* await auto_corrector.fix(output, violations, context), called directly with
\* the violations the validators found
Fix ==
    /\ pc = "ready"
    /\ ~Hangs
    /\ \E found \in {CollectViolations(output, rules, context, has_db, env)} :
          /\ ~found.raised
          /\ \E fix \in {AutoCorrectorFix(output, found.vs, context)} :
                /\ fix_result' = fix
                /\ output' = DocumentAfterFix(output, fix.doc)
    /\ pc' = "fixed"
    /\ UNCHANGED <<rules, context, has_db, env, result, connector_vars, ml_vars, confidence_vars, second, service_vars>>

Next == Validate \/ Fix

Spec == Init /\ [][Next]_vars

SpecKinds == InitKinds /\ [][Next]_vars

----------------------------------------------------------------------------
(* External connectors: a direct check, and a validate that awaits one *)

MaxWait == 12

ExternalRefQuick == [type |-> StrV("external_ref"), name |-> StrV("registry_quick"),
                     field |-> StrV("fiqh_school"), connector |-> StrV("fiqh_registry"),
                     timeout |-> IntV(2), severity |-> StrV("error")]
ExternalRefNoConnector == [type |-> StrV("external_ref"), field |-> StrV("fiqh_school")]

ConnectorTemplates == {ExternalRefRule, ExternalRefQuick, ExternalRefNoConnector, RangeRule}

ConnectorDocuments ==
    {DictV([hours |-> IntV(30), fiqh_school |-> StrV("Hanafy")]),
     DictV([hours |-> IntV(10)])}

\* what the connector does when it is registered, or that it is not
ConnectorBehaviours == {"unregistered", "exists", "missing", "raises", "timeout", "hangs"}

ConnectorSetups ==
    {[has_db |-> FALSE,
      env |-> [EnvNone EXCEPT !.connector = c, !.error = "connection refused",
                              !.elapsed_ms = 7]] : c \in ConnectorBehaviours}

InitConnector ==
    InitWith(ConnectorDocuments, RuleListsOf(ConnectorTemplates), {None}, ConnectorSetups)

\* await ExternalReferenceValidator.check("fiqh_registry", value), called
\* directly, when the connector completes
Check ==
    /\ pc = "ready"
    /\ env.connector # "hangs"
    /\ check_result' = ConnectorCheck("fiqh_registry", 10, env)
    /\ pc' = "checked"
    /\ UNCHANGED <<output, rules, context, has_db, env, result, fix_result, waited, ml_vars, confidence_vars, second, service_vars>>

\* validate reaches  await connector(value, **params)  of a connector that
\* never completes: the coroutine stays suspended
Suspend ==
    /\ pc = "ready"
    /\ Hangs
    /\ pc' = "awaiting"
    /\ UNCHANGED <<output, rules, context, has_db, env, result, fix_result, connector_vars, ml_vars, confidence_vars, second, service_vars>>

\* a second passes while the caller is suspended; nothing in check or in
\* _validate_external_ref is scheduled to run when the timeout has passed
Tick ==
    /\ pc = "awaiting"
    /\ waited < MaxWait
    /\ waited' = waited + 1
    /\ UNCHANGED <<output, rules, context, has_db, env, pc, result, fix_result, check_result, ml_vars, confidence_vars, second, service_vars>>

InitMl ==
    InitWith({ScoredSample}, {<<>>}, {None}, {[has_db |-> FALSE, env |-> EnvNone]})

\* a call of MLAnomalyDetector.train
Train ==
    /\ pc = "ready"
    /\ \E org_id \in Orgs, samples \in SampleLists, fit_ok \in BOOLEAN, write_ok \in BOOLEAN :
        \E r \in {MlTrain(models, store, org_id, samples, TrainFields, fit_ok, write_ok)} :
            /\ models' = r.models
            /\ store' = r.store
            /\ ml_result' = Called([r EXCEPT !.models = <<>>, !.store = <<>>],
                                   fit_ok, write_ok, TRUE, models[org_id])
    /\ UNCHANGED <<output, rules, context, has_db, env, pc, result, fix_result, connector_vars, confidence_vars, second, service_vars>>

\* a call of MLAnomalyDetector.score
Score ==
    /\ pc = "ready"
    /\ \E org_id \in Orgs, read_ok \in BOOLEAN, anomalous \in BOOLEAN :
        \E r \in {MlScore(models, store, org_id, output, read_ok, anomalous)} :
            /\ models' = r.models
            /\ ml_result' = Called([r EXCEPT !.models = <<>>],
                                   TRUE, TRUE, read_ok, models[org_id])
    /\ UNCHANGED <<output, rules, context, has_db, env, pc, result, fix_result, connector_vars, store, confidence_vars, second, service_vars>>

\* the evaluation of an anomaly_ml rule of an organization
EvaluateAnomalyMl ==
    /\ pc = "ready"
    /\ \E org_id \in Orgs, read_ok \in BOOLEAN, anomalous \in BOOLEAN :
        \E r \in {RuleCall(models, org_id, output,
                           Load(models, store, org_id, read_ok), anomalous)} :
            /\ models' = r.models
            /\ ml_result' = Called([r EXCEPT !.models = <<>>],
                                   TRUE, TRUE, read_ok, models[org_id])
    /\ UNCHANGED <<output, rules, context, has_db, env, pc, result, fix_result, connector_vars, store, confidence_vars, second, service_vars>>

\* documents with round numbers, placeholders and percentages
AnomalyDocuments ==
    {DictV([count |-> IntV(1000), percentage |-> IntV(120), user_id |-> IntV(999)]),
     DictV([count |-> IntV(1000), percentage |-> IntV(120), user_id |-> IntV(999),
            amount |-> IntV(10000)]),
     DictV([count |-> IntV(37), percentage |-> IntV(55), active |-> BoolV(TRUE)]),
     DictV([hours |-> IntV(1), stats |-> DictV([error_rate |-> IntV(0 - 1)])]),
     DictV([hours |-> FloatV(30), task |-> StrV("100")]),
     DictV([task |-> StrV("Development")])}

AnomalyContexts ==
    {None,
     DictV([detect_anomalies |-> BoolV(TRUE), auto_detect_anomalies |-> BoolV(TRUE)]),
     DictV([detect_anomalies |-> BoolV(TRUE)]),
     DictV([auto_detect_anomalies |-> BoolV(TRUE)]),
     DictV([detect_anomalies |-> BoolV(TRUE), auto_detect_anomalies |-> BoolV(TRUE),
            auto_correct |-> BoolV(TRUE)])}

\* the engine of the API route, built without a database session, and an
\* engine built with one
AnomalySetups ==
    {[has_db |-> FALSE, env |-> EnvNone],
     [has_db |-> TRUE, env |-> EnvYes]}

InitAnomaly ==
    InitWith(AnomalyDocuments, RuleListsOf({RangeRule, RequiredRule}), AnomalyContexts,
             AnomalySetups)

NextAnomaly == Validate \/ Fix

SpecAnomaly == InitAnomaly /\ [][NextAnomaly]_vars

\* the kinds of rule of the repeated calls
RepeatTemplates ==
    {RangeRule, RangeSoft, EnumRule, PatternRule, ExternalRefRule, SemanticRule, AnomalyMlRule}

InitRepeat == InitWith(KindDocuments, RuleListsOf(RepeatTemplates), KindContexts, KindSetups)

\* a call of RuleEngine.validate
Evaluate ==
    /\ pc = "ready"
    /\ ~Hangs
    /\ result' = RuleEngineValidate(output, rules, context, env)
    /\ pc' = "evaluated"
    /\ UNCHANGED <<output, rules, context, has_db, env, fix_result, connector_vars, ml_vars, confidence_vars, second, service_vars>>

\* a second call of RuleEngine.validate with the same arguments
EvaluateAgain ==
    /\ pc = "evaluated"
    /\ second' = RuleEngineValidate(output, rules, context, env)
    /\ pc' = "evaluated_again"
    /\ UNCHANGED <<output, rules, context, has_db, env, result, fix_result, connector_vars, ml_vars, confidence_vars, service_vars>>

\* a second call of AutoCorrector.fix with the same document object, the
\* violations the validators found and the same context
FixAgain ==
    /\ pc = "fixed"
    /\ \E found \in {CollectViolations(output, rules, context, has_db, env)} :
          /\ ~found.raised
          /\ \E fix \in {AutoCorrectorFix(output, found.vs, context)} :
                /\ second' = fix
                /\ output' = DocumentAfterFix(output, fix.doc)
    /\ pc' = "fixed_again"
    /\ UNCHANGED <<rules, context, has_db, env, result, fix_result, connector_vars, ml_vars, confidence_vars, service_vars>>

NextRepeat == Validate \/ Evaluate \/ EvaluateAgain \/ Fix \/ FixAgain

SpecRepeat == InitRepeat /\ [][NextRepeat]_vars

InitConfidence ==
    InitWith({DictV([hours |-> IntV(10)])}, {<<>>}, {None}, {[has_db |-> FALSE, env |-> EnvNone]})

\* the caller chooses the arguments of calculate_confidence
ChooseScoring ==
    /\ pc = "ready"
    /\ scoring = NoScoring
    /\ \E res \in CleanResults, statistical_score \in StatisticalScores, ref \in BOOLEAN :
        scoring' = [res |-> res, statistical_score |-> statistical_score,
                    has_reference_violations |-> ref]
    /\ UNCHANGED <<output, rules, context, has_db, env, pc, result, fix_result, connector_vars, ml_vars, confidence, second, service_vars>>

\* a call of ConfidenceScorer.calculate_confidence
Calculate ==
    /\ pc = "ready"
    /\ scoring # NoScoring
    /\ confidence = NoConfidence
    /\ confidence' = [factors |-> CalculateConfidence(scoring.res, scoring.statistical_score,
                                                      scoring.has_reference_violations),
                      level |-> ""]
    /\ UNCHANGED <<output, rules, context, has_db, env, pc, result, fix_result, connector_vars, ml_vars, scoring, second, service_vars>>

\* a call of ConfidenceScorer.get_confidence_level on the overall confidence
Level ==
    /\ pc = "ready"
    /\ confidence.factors # None
    /\ confidence.level = ""
    /\ confidence' = [confidence EXCEPT !.level = GetConfidenceLevel(confidence.factors.overall_confidence)]
    /\ UNCHANGED <<output, rules, context, has_db, env, pc, result, fix_result, connector_vars, ml_vars, scoring, second, service_vars>>

NextConfidence == ChooseScoring \/ Calculate \/ Level

SpecConfidence == InitConfidence /\ [][NextConfidence]_vars

NextMl == Train \/ Score \/ EvaluateAnomalyMl

SpecMl == InitMl /\ [][NextMl]_vars

NextConnector == Validate \/ Check \/ Suspend \/ Tick

SpecConnector == InitConnector /\ [][NextConnector]_vars

\* time passes and a call that can return does return
SpecConnectorFair == SpecConnector /\ WF_vars(NextConnector)

----------------------------------------------------------------------------
(* Statistical analyzer: a call of the z-score test *)

IdleRequest ==
    InitWith({DictV([hours |-> IntV(10)])}, {<<>>}, {None}, {[has_db |-> FALSE, env |-> EnvNone]})

InitZscore == IdleRequest

\* the caller chooses the arguments of detect_outlier_zscore
ChooseZscore ==
    /\ zscore = NoZscore
    /\ zscore' \in ZscoreCalls
    /\ UNCHANGED <<engine_vars, organization, http_status, threads, limiter, clock, api_keys>>

\* a call of StatisticalAnalyzer.detect_outlier_zscore
DetectZscore ==
    /\ zscore # NoZscore
    /\ zscore.result = None
    /\ zscore' = [zscore EXCEPT !.result = DetectOutlierZscore("hours", zscore.value, zscore.mean,
                                                              zscore.std_dev, zscore.threshold)]
    /\ UNCHANGED <<engine_vars, organization, http_status, threads, limiter, clock, api_keys>>

NextZscore == ChooseZscore \/ DetectZscore

SpecZscore == InitZscore /\ [][NextZscore]_vars

----------------------------------------------------------------------------
(* Monthly quota: POST /v1/validate behind require_quota *)

MaxUsage == 6

\* an Organization row
Organization(subscription_status, monthly_quota, usage_current_month) ==
    [t |-> "organization", subscription_status |-> subscription_status,
     monthly_quota |-> monthly_quota, usage_current_month |-> usage_current_month]

\* What a call of an `async def` function gives when it is not awaited: a
\* coroutine object, which would give `value` once awaited.
Coroutine(value) == [t |-> "coroutine", value |-> value]

\* bool(x): a coroutine object defines neither __bool__ nor __len__, so it is true
Bool(x) == IF x.t = "coroutine" THEN TRUE ELSE Truthy(x)

\* Organization.has_quota(), called without await
HasQuota(org) == Coroutine(BoolV(org.usage_current_month < org.monthly_quota))

\* check_quota(organization), called without await; its body does not await
\* has_quota either
CheckQuota(org) == Coroutine(HasQuota(org))

\* require_quota: the status it raises, 200 when it lets the request through
RequireQuota(org) ==
    LET status == IF Truthy(org.subscription_status) THEN org.subscription_status
                  ELSE StrV("active")
    IN  IF status \in {StrV("canceled"), StrV("past_due")} THEN 402
        ELSE IF ~Bool(CheckQuota(org)) THEN 429
        ELSE 200

\* increment_usage
IncrementUsage(org) ==
    [org EXCEPT !.usage_current_month = org.usage_current_month + 1]

Quotas == {1, 2, 3}
SubscriptionStatuses == {None, StrV("active"), StrV("trialing"), StrV("canceled"), StrV("past_due")}

\* the caller's organization: its plan, its billing status and what it has
\* used so far this month, within its quota
ChooseOrganization ==
    /\ organization = None
    /\ \E status \in SubscriptionStatuses, quota \in Quotas, used \in 0..2 :
         /\ used <= quota
         /\ organization' = Organization(status, quota, used)
    /\ UNCHANGED <<engine_vars, zscore, http_status, threads, limiter, clock, api_keys>>

\* POST /v1/validate: require_quota, then the validation, the log and
\* increment_usage; a validation that raises is rolled back and answered 500
ValidateRoute ==
    /\ organization # None
    /\ organization.usage_current_month < MaxUsage
    /\ \E raised \in BOOLEAN :
         IF RequireQuota(organization) # 200
         THEN /\ http_status' = RequireQuota(organization)
              /\ UNCHANGED organization
         ELSE IF raised
         THEN /\ http_status' = 500
              /\ UNCHANGED organization
         ELSE /\ http_status' = 200
              /\ organization' = IncrementUsage(organization)
    /\ UNCHANGED <<engine_vars, zscore, threads, limiter, clock, api_keys>>

InitQuota == IdleRequest
NextQuota == ChooseOrganization \/ ValidateRoute
SpecQuota == InitQuota /\ [][NextQuota]_vars

----------------------------------------------------------------------------
(* Constraint rules: predicates that are boolean, not boolean, or raise *)

ConstraintValue == [type |-> StrV("constraint"), field |-> StrV("hours"),
                    expression |-> StrV("value"), severity |-> StrV("error")]
ConstraintLen == [type |-> StrV("constraint"), field |-> StrV("hours"),
                  expression |-> StrV("len(value) > 0"), severity |-> StrV("info")]
ConstraintSoft == [type |-> StrV("constraint"), field |-> StrV("hours"),
                   expression |-> StrV("value > 0"), severity |-> StrV("info")]
ConstraintTemplates == {ConstraintRule, ConstraintValue, ConstraintLen, ConstraintSoft}

ConstraintDocuments ==
    {DictV([hours |-> IntV(10)]),
     DictV([hours |-> IntV(0)]),
     DictV([hours |-> IntV(0 - 5)]),
     DictV([hours |-> StrV("30")]),
     DictV([hours |-> StrV("")]),
     DictV([hours |-> BoolV(FALSE)]),
     DictV([task |-> StrV("Development")])}

InitConstraint ==
    InitWith(ConstraintDocuments, RuleListsOf(ConstraintTemplates), {None},
             {[has_db |-> FALSE, env |-> EnvNone]})
NextConstraint == Validate
SpecConstraint == InitConstraint /\ [][NextConstraint]_vars

----------------------------------------------------------------------------
(* ML anomaly detector: train and score calls of several threads *)

MaxCalls == 3

\* the organization the calls are for
RaceOrg == "org_a"

\* what the calls train on: the number of rows tells the fitted models apart
RaceTrainings == {[fields |-> <<"amount">>, n |-> 2], [fields |-> <<"amount", "hours">>, n |-> 3]}

\* a file that is open for writing and not written yet
PartialFile == [t |-> "partial"]

\* self._models[org_id] = entry: one dict store
Install(ms, org_id, entry) == [ms EXCEPT ![org_id] = entry]

\* the train calls that have stored their entry
Installed == {t \in 1..Len(threads) : threads[t].op = "train" /\ threads[t].order > 0}

\* what is left unchanged by the calls of the threads
race_frame == <<output, rules, context, has_db, env, pc, result, fix_result, connector_vars, ml_result, confidence_vars, second, zscore, organization, http_status, limiter, clock, api_keys>>

\* a thread calls train: _vectorize and IsolationForest.fit work on locals
CallTrain ==
    /\ Len(threads) < MaxCalls
    /\ \E training \in RaceTrainings, fit_ok \in BOOLEAN :
         threads' = Append(threads,
                           [op |-> "train", pc |-> IF fit_ok THEN "install" ELSE "done",
                            fields |-> training.fields, n |-> training.n, order |-> 0,
                            entry |-> None, success |-> FALSE])
    /\ UNCHANGED <<models, store, race_frame>>

\* train: self._models[org_id] = {...}
TrainInstall(t) ==
    /\ threads[t].op = "train" /\ threads[t].pc = "install"
    /\ models' = Install(models, RaceOrg, StoredModel(RaceOrg, threads[t].fields, threads[t].n))
    /\ threads' = [threads EXCEPT ![t].pc = "save", ![t].order = Cardinality(Installed) + 1]
    /\ UNCHANGED <<store, race_frame>>

\* _save: joblib.dump(self._models[org_id], path) reads the entry and opens
\* the file; a failure is logged
SaveOpen(t) ==
    /\ threads[t].op = "train" /\ threads[t].pc = "save"
    /\ \E write_ok \in BOOLEAN :
         IF write_ok
         THEN /\ threads' = [threads EXCEPT ![t].pc = "write", ![t].entry = models[RaceOrg]]
              /\ store' = [store EXCEPT ![ModelPath(RaceOrg)] = PartialFile]
         ELSE /\ threads' = [threads EXCEPT ![t].pc = "done", ![t].success = TRUE]
              /\ UNCHANGED store
    /\ UNCHANGED <<models, race_frame>>

\* _save: the file is written and closed; train returns success
SaveWrite(t) ==
    /\ threads[t].op = "train" /\ threads[t].pc = "write"
    /\ store' = [store EXCEPT ![ModelPath(RaceOrg)] =
                     IF \E u \in 1..Len(threads) : u # t /\ threads[u].pc = "write"
                     THEN PartialFile ELSE threads[t].entry]
    /\ threads' = [threads EXCEPT ![t].pc = "done", ![t].success = TRUE, ![t].entry = None]
    /\ UNCHANGED <<models, race_frame>>

\* a thread calls score
CallScore ==
    /\ Len(threads) < MaxCalls
    /\ threads' = Append(threads, [op |-> "score", pc |-> "check", loaded |-> None,
                                   stored |-> None, used |-> None, trained |-> FALSE])
    /\ UNCHANGED <<models, store, race_frame>>

\* score: if not self.is_trained(org_id)
ScoreCheck(t) ==
    /\ threads[t].op = "score" /\ threads[t].pc = "check"
    /\ threads' = [threads EXCEPT ![t].pc = IF IsTrained(models, RaceOrg) THEN "stored" ELSE "load"]
    /\ UNCHANGED <<models, store, race_frame>>

\* _load: os.path.exists(path) and joblib.load(path); without a file, or
\* with one that cannot be read, score answers "not trained yet"
LoadRead(t) ==
    /\ threads[t].op = "score" /\ threads[t].pc = "load"
    /\ \E read_ok \in BOOLEAN :
         IF store[ModelPath(RaceOrg)] \in {None, PartialFile} \/ ~read_ok
         THEN threads' = [threads EXCEPT ![t].pc = "done"]
         ELSE threads' = [threads EXCEPT ![t].pc = "loaded",
                                         ![t].loaded = store[ModelPath(RaceOrg)]]
    /\ UNCHANGED <<models, store, race_frame>>

\* _load: self._models[org_id] = what joblib.load returned
LoadInstall(t) ==
    /\ threads[t].op = "score" /\ threads[t].pc = "loaded"
    /\ models' = Install(models, RaceOrg, threads[t].loaded)
    /\ threads' = [threads EXCEPT ![t].pc = "stored", ![t].loaded = None]
    /\ UNCHANGED <<store, race_frame>>

\* the record score works with: the fields and the model of `stored`
UsedEntry(stored, entry) == stored

\* score: stored = self._models[org_id]; trained_fields = stored.get("fields")
ScoreStored(t) ==
    /\ threads[t].op = "score" /\ threads[t].pc = "stored"
    /\ threads' = [threads EXCEPT ![t].pc = "use", ![t].stored = models[RaceOrg]]
    /\ UNCHANGED <<models, store, race_frame>>

\* score: model = stored["model"], the decision function and the result
ScoreUse(t) ==
    /\ threads[t].op = "score" /\ threads[t].pc = "use"
    /\ threads' = [threads EXCEPT ![t].pc = "done", ![t].trained = TRUE, ![t].stored = None,
                                    ![t].used = UsedEntry(threads[t].stored, models[RaceOrg])]
    /\ UNCHANGED <<models, store, race_frame>>

InitRace == IdleRequest
NextRace ==
    \/ CallTrain
    \/ CallScore
    \/ \E t \in 1..Len(threads) :
          \/ TrainInstall(t)
          \/ SaveOpen(t)
          \/ SaveWrite(t)
          \/ ScoreCheck(t)
          \/ LoadRead(t)
          \/ LoadInstall(t)
          \/ ScoreStored(t)
          \/ ScoreUse(t)
SpecRace == InitRace /\ [][NextRace]_vars

----------------------------------------------------------------------------
(* Rate limiter: check_rate_limit of concurrent requests *)

MaxRequests == 4
MaxClock == 90

\* RateLimitConfig(tier, **kwargs) with small limits
RateLimitConfig == [requests_per_minute |-> 2, requests_per_hour |-> 3, requests_per_day |-> 4]

\* the windows of check_rate_limit
Windows(config) ==
    <<[name |-> "minute", seconds |-> 60, limit |-> config.requests_per_minute],
      [name |-> "hour", seconds |-> 3600, limit |-> config.requests_per_hour],
      [name |-> "day", seconds |-> 86400, limit |-> config.requests_per_day]>>

\* RateLimiter._get_key
GetKey(organization_id, window) == "ratelimit:" \o organization_id \o ":" \o window

\* the sorted set stored under a key, empty when the key is absent
ZSet(redis, key) == IF key \in DOMAIN redis THEN redis[key] ELSE {}

\* ZREMRANGEBYSCORE key lo hi
ZRemRangeByScore(redis, key, lo, hi) ==
    (key :> {e \in ZSet(redis, key) : e.score < lo \/ e.score > hi}) @@ redis

\* ZCARD key
ZCard(redis, key) == Cardinality(ZSet(redis, key))

\* ZADD key {member: score}: a member that is in the set has its score
\* replaced
ZAdd(redis, key, member, score) ==
    (key :> ({e \in ZSet(redis, key) : e.member # member}
                \cup {[member |-> member, score |-> score]})) @@ redis

\* RateLimiter._check_window
CheckWindow(redis, organization_id, window, current_time) ==
    LET key == GetKey(organization_id, window.name)
        cleaned == ZRemRangeByScore(redis, key, 0, current_time - window.seconds)
    IN  [redis |-> cleaned, allowed |-> ~(ZCard(cleaned, key) >= window.limit)]

RECURSIVE CheckWindows(_, _, _, _, _)
\* the first loop of check_rate_limit from window i on: the first window
\* that is full raises RateLimitExceeded
CheckWindows(redis, organization_id, windows, current_time, i) ==
    IF i > Len(windows) THEN [redis |-> redis, allowed |-> TRUE]
    ELSE IF ~CheckWindow(redis, organization_id, windows[i], current_time).allowed
    THEN CheckWindow(redis, organization_id, windows[i], current_time)
    ELSE CheckWindows(CheckWindow(redis, organization_id, windows[i], current_time).redis,
                      organization_id, windows, current_time, i + 1)

\* RateLimiter._increment_counter: request_id = f"{current_time}:{id(self)}"
IncrementCounter(redis, organization_id, window, current_time, id) ==
    ZAdd(redis, GetKey(organization_id, window.name), <<current_time, id>>, current_time)

RECURSIVE IncrementCounters(_, _, _, _, _, _)
\* the second loop of check_rate_limit from window i on
IncrementCounters(redis, organization_id, windows, current_time, id, i) ==
    IF i > Len(windows) THEN redis
    ELSE IncrementCounters(IncrementCounter(redis, organization_id, windows[i], current_time, id),
                           organization_id, windows, current_time, id, i + 1)

\* RateLimiter._get_remaining, as what it leaves in Redis
GetRemaining(redis, organization_id, window, current_time) ==
    ZRemRangeByScore(redis, GetKey(organization_id, window.name), 0,
                     current_time - window.seconds)

\* id(self) of a RateLimiter: an address, which no two live objects share
\* and which a later object may be given again
ObjectIds == {1, 2}
LiveIds == {threads[t].id : t \in {u \in 1..Len(threads) : threads[u].pc # "done"}}

LimitedOrg == "org_a"

\* what is left unchanged by the requests
limiter_frame == <<engine_vars, zscore, organization, http_status, api_keys>>

\* a request reaches the dependency check_rate_limit: RateLimiter(), and
\* current_time = int(time.time())
StartRequest ==
    /\ Len(threads) < MaxRequests
    /\ \E id \in ObjectIds \ LiveIds :
         threads' = Append(threads, [op |-> "request", pc |-> "check", id |-> id,
                                     current_time |-> clock, allowed |-> FALSE])
    /\ UNCHANGED <<limiter, clock, limiter_frame>>

\* check_rate_limit up to the end of its first loop
CheckRequest(t) ==
    /\ threads[t].op = "request" /\ threads[t].pc = "check"
    /\ \E r \in {CheckWindows(limiter, LimitedOrg, Windows(RateLimitConfig),
                               threads[t].current_time, 1)} :
         /\ limiter' = r.redis
         /\ threads' = [threads EXCEPT ![t].pc = IF r.allowed THEN "increment" ELSE "done"]
    /\ UNCHANGED <<clock, limiter_frame>>

\* check_rate_limit from its second loop on: the request is allowed
IncrementRequest(t) ==
    /\ threads[t].op = "request" /\ threads[t].pc = "increment"
    /\ limiter' = GetRemaining(IncrementCounters(limiter, LimitedOrg, Windows(RateLimitConfig),
                                                  threads[t].current_time, threads[t].id, 1),
                                LimitedOrg, Windows(RateLimitConfig)[1], threads[t].current_time)
    /\ threads' = [threads EXCEPT ![t].pc = "done", ![t].allowed = TRUE]
    /\ UNCHANGED <<clock, limiter_frame>>

\* half a minute passes
TickClock ==
    /\ clock + 30 <= MaxClock
    /\ clock' = clock + 30
    /\ UNCHANGED <<threads, limiter, limiter_frame>>

InitLimiter == IdleRequest
NextLimiter ==
    \/ StartRequest
    \/ TickClock
    \/ \E t \in 1..Len(threads) : CheckRequest(t) \/ IncrementRequest(t)
SpecLimiter == InitLimiter /\ [][NextLimiter]_vars

----------------------------------------------------------------------------
(* API keys: revoke and rotate requests of one organization *)

MaxKeys == 3
MaxKeyRequests == 2

\* the ids of the APIKey rows
KeyIds == 1..Len(api_keys)

\* select(APIKey).where(organization_id == ..., is_active == True)
ActiveKeys(keys) == {k \in 1..Len(keys) : keys[k].is_active}

\* verify_api_key: the key of the header belongs to an active row
VerifyApiKey(keys, key) == key \in ActiveKeys(keys)

\* create_api_key: a new active row, committed
CreateApiKey(keys) == Append(keys, [is_active |-> TRUE])

\* api_key.is_active = False; await db.commit()
Deactivate(keys, key_id) == [keys EXCEPT ![key_id].is_active = FALSE]

\* revoke_api_key: len(active_keys) == 1 and api_key.is_active
IsLastActive(active_keys, is_active) == Cardinality(active_keys) = 1 /\ is_active

\* what is left unchanged by the key requests
keys_frame == <<engine_vars, zscore, organization, http_status, limiter, clock>>

\* a request in progress
KeyRequest(op, at, auth, key_id, status) ==
    [op |-> op, pc |-> at, auth |-> auth, key_id |-> key_id, new_id |-> 0, status |-> status]

\* POST /v1/auth/signup: the organization with its first key
Signup ==
    /\ api_keys = <<>>
    /\ api_keys' = CreateApiKey(api_keys)
    /\ UNCHANGED <<threads, keys_frame>>

\* POST /v1/auth/api-keys
CreateNewApiKey ==
    /\ Len(api_keys) < MaxKeys
    /\ \E auth \in KeyIds : VerifyApiKey(api_keys, auth)
    /\ api_keys' = CreateApiKey(api_keys)
    /\ UNCHANGED <<threads, keys_frame>>

\* DELETE /v1/auth/api-keys/{key_id} and POST .../rotate up to the end of
\* verify_api_key: an inactive key is answered 401
StartKeyRequest ==
    /\ Len(threads) < MaxKeyRequests
    /\ \E op \in {"revoke", "rotate"}, auth \in KeyIds, key_id \in KeyIds :
         threads' = Append(threads,
                           IF VerifyApiKey(api_keys, auth)
                           THEN KeyRequest(op, "select", auth, key_id, 0)
                           ELSE KeyRequest(op, "done", 0, key_id, 401))
    /\ UNCHANGED <<api_keys, keys_frame>>

\* revoke_api_key: the two selects and the last-key test
RevokeSelect(t) ==
    /\ threads[t].op = "revoke" /\ threads[t].pc = "select"
    /\ threads' = IF IsLastActive(ActiveKeys(api_keys), api_keys[threads[t].key_id].is_active)
                   THEN [threads EXCEPT ![t].pc = "done", ![t].status = 400, ![t].auth = 0]
                   ELSE [threads EXCEPT ![t].pc = "commit"]
    /\ UNCHANGED <<api_keys, keys_frame>>

\* revoke_api_key: the key is deactivated and the change committed
RevokeCommit(t) ==
    /\ threads[t].op = "revoke" /\ threads[t].pc = "commit"
    /\ api_keys' = Deactivate(api_keys, threads[t].key_id)
    /\ threads' = [threads EXCEPT ![t].pc = "done", ![t].status = 204, ![t].auth = 0]
    /\ UNCHANGED keys_frame

\* rotate_api_key: the select of the old key and create_api_key
RotateCreate(t) ==
    /\ threads[t].op = "rotate" /\ threads[t].pc = "select"
    /\ IF ~api_keys[threads[t].key_id].is_active
       THEN /\ threads' = [threads EXCEPT ![t].pc = "done", ![t].status = 400, ![t].auth = 0]
            /\ UNCHANGED api_keys
       ELSE /\ Len(api_keys) < MaxKeys
            /\ api_keys' = CreateApiKey(api_keys)
            /\ threads' = [threads EXCEPT ![t].pc = "commit", ![t].new_id = Len(api_keys) + 1]
    /\ UNCHANGED keys_frame

\* rotate_api_key: the old key is deactivated and the change committed
RotateCommit(t) ==
    /\ threads[t].op = "rotate" /\ threads[t].pc = "commit"
    /\ api_keys' = Deactivate(api_keys, threads[t].key_id)
    /\ threads' = [threads EXCEPT ![t].pc = "done", ![t].status = 200, ![t].auth = 0]
    /\ UNCHANGED keys_frame

InitKeys == IdleRequest
NextKeys ==
    \/ Signup
    \/ CreateNewApiKey
    \/ StartKeyRequest
    \/ \E t \in 1..Len(threads) :
          RevokeSelect(t) \/ RevokeCommit(t) \/ RotateCreate(t) \/ RotateCommit(t)
SpecKeys == InitKeys /\ [][NextKeys]_vars

----------------------------------------------------------------------------
(* Properties *)

Returned == pc = "returned"

\* the context asks for auto-correction
AutoCorrectOn == Truthy(context) /\ Truthy(DictGet(context, "auto_correct"))

RuleType(i) == RGet(rules[i], "type")

\* the positions in the result of the violations rule i produced
ViolationsOf(i) ==
    {k \in 1..Len(result.violations) : result.violations[k].rule_idx = i}

\* the stage of ValidationEngine.validate that evaluates a rule
Stage(rule) ==
    IF RGet(rule, "type") = StrV("schema") THEN 1
    ELSE IF RGet(rule, "type") = StrV("reference") THEN 3
    ELSE 2

\* C1 (as claimed): the violations of the result appear in the order of the
\* rules that produced them in the caller's rule list.
C1_CallerRuleOrder ==
    Returned =>
        \A i, j \in 1..Len(result.violations) :
            i < j => result.violations[i].rule_idx <= result.violations[j].rule_idx

\* C1 (amended): the violations are grouped by stage (schema rules, then the
\* rule-engine kinds, then reference rules) and, within one stage, appear in
\* the order of the rules that produced them in the caller's rule list.
C1_StageThenRuleOrder ==
    Returned =>
        \A i, j \in 1..Len(result.violations) :
            i < j =>
                LET a == result.violations[i]
                    b == result.violations[j]
                IN \/ Stage(rules[a.rule_idx]) < Stage(rules[b.rule_idx])
                   \/ /\ Stage(rules[a.rule_idx]) = Stage(rules[b.rule_idx])
                      /\ a.rule_idx <= b.rule_idx

\* two rule-engine rules of one request both reported, in list order
C1_Witness ==
    /\ Returned
    /\ \E i, j \in 1..Len(result.violations) :
          /\ i < j
          /\ result.violations[i].rule_idx < result.violations[j].rule_idx
          /\ Stage(rules[result.violations[i].rule_idx]) = 2
          /\ Stage(rules[result.violations[j].rule_idx]) = 2

HasSeverity(severity) ==
    \E k \in 1..Len(result.violations) : result.violations[k].severity = severity

\* C2: status is failed iff some violation is an error, is_valid iff none is,
\* status is warning iff there is no error and some warning, passed otherwise.
C2_StatusFromSeverities ==
    Returned =>
        /\ result.status = "failed" <=> HasSeverity("error")
        /\ result.is_valid <=> ~HasSeverity("error")
        /\ result.status = "warning" <=> (~HasSeverity("error") /\ HasSeverity("warning"))
        /\ result.status = "passed" <=> (~HasSeverity("error") /\ ~HasSeverity("warning"))

\* a result with only info violations
C2_Witness ==
    /\ Returned
    /\ result.violations # <<>>
    /\ ~HasSeverity("error")
    /\ ~HasSeverity("warning")

\* C3 (as claimed): AutoCorrector.fix returns (None, []) unless
\* context.auto_correct is true, also for an absent or empty context.
C3_FixNoOpUnlessEnabled ==
    (pc = "fixed" /\ ~AutoCorrectOn) =>
        (fix_result.doc = None /\ fix_result.fixes = <<>>)

\* what a strategy returns as description when it could not fix
FailureDescriptions ==
    {"Could not auto-correct range violation", "Could not determine expected type",
     "Could not coerce type", "Value is not a string"}

\* C4 (as claimed): corrected_output is present only if some fix succeeded, and
\* corrections_applied has no entry for a strategy that could not fix.
C4_OnlySuccessfulFixesReported ==
    Returned =>
        /\ \A k \in 1..Len(result.corrections_applied) :
              result.corrections_applied[k] \notin FailureDescriptions
        /\ result.corrected_output # None => result.corrections_applied # <<>>
        /\ result.auto_corrected <=> result.corrected_output # None

IsError(v) == v.severity = "error"

\* C5: AutoCorrector.fix returns what it returns for the error violations
\* alone: a warning or info violation changes neither the document nor the
\* fix descriptions.
C5_OnlyErrorsAttempted ==
    /\ pc = "fixed" =>
          fix_result = AutoCorrectorFix(
                           output,
                           SelectSeq(CollectViolations(output, rules, context, has_db, env).vs,
                                     IsError),
                           context)
    /\ (Returned /\ AutoCorrectOn) =>
          /\ Len(result.corrections_applied) <= Len(SelectSeq(result.violations, IsError))
          /\ LET r == AutoCorrectorFix(output, SelectSeq(result.violations, IsError), context)
             IN result.corrected_output = r.doc /\ result.corrections_applied = r.fixes

\* fix was called with corrections enabled and left alone a warning that
\* RangeClamp applies to
C5_Witness ==
    /\ pc = "fixed"
    /\ ~FixDisabled(context)
    /\ fix_result.doc = None
    /\ \E k \in 1..Len(CollectViolations(output, rules, context, has_db, env).vs) :
          LET v == CollectViolations(output, rules, context, has_db, env).vs[k]
          IN v.severity = "warning" /\ RangeCanFix(v) /\ ExtractRange(v).ok

\* rule i is a range rule with a field, a min and a max
IsFullRange(i) ==
    /\ RuleType(i) = StrV("range")
    /\ RGet(rules[i], "field").t = "str"
    /\ RGet(rules[i], "min") # None
    /\ RGet(rules[i], "max") # None

FieldValue(i) == GetNestedValue(output, RGet(rules[i], "field")).v

OutOfRange(i) ==
    /\ IsNumber(FieldValue(i))
    /\ \/ FieldValue(i).n < rules[i]["min"].n
       \/ FieldValue(i).n > rules[i]["max"].n

\* no other rule reports an error on the field of rule i
OnlyErrorOnField(i) ==
    \A k \in 1..Len(result.violations) :
        LET v == result.violations[k]
        IN (v.field = rules[i]["field"].s /\ v.severity = "error") => v.rule_idx = i

OneSubstitution(a, b) ==
    /\ Len(a) = Len(b)
    /\ Cardinality({k \in 1..Len(a) : Char(a, k) # Char(b, k)}) = 1

IsEnumError(i) ==
    /\ RuleType(i) = StrV("enum")
    /\ RuleSeverity(rules[i], "error") = "error"
    /\ FieldValue(i).t = "str"
    /\ \A k \in 1..Len(rules[i]["valid_options"].l) :
          rules[i]["valid_options"].l[k] # FieldValue(i)

\* C7 (as claimed): with auto_correct, an enum value one character away from
\* an option ('Hanafy') is replaced in corrected_output by that option, and a
\* value with no close option ('Sunni') keeps its violation uncorrected.
C7_EnumClosestOption ==
    (Returned /\ AutoCorrectOn) =>
        \A i \in 1..Len(rules) :
            IsEnumError(i) =>
                /\ ViolationsOf(i) # {}
                /\ \A k \in 1..Len(rules[i]["valid_options"].l) :
                      LET option == rules[i]["valid_options"].l[k]
                      IN OneSubstitution(FieldValue(i).s, option.s) =>
                            /\ result.corrected_output # None
                            /\ GetFieldValue(result.corrected_output,
                                             rules[i]["field"].s) = option
                /\ FieldValue(i) = StrV("Sunni") =>
                      \/ result.corrected_output = None
                      \/ GetFieldValue(result.corrected_output, rules[i]["field"].s)
                             = StrV("Sunni")

IsRequiredWithDefault(i) ==
    /\ RuleType(i) = StrV("required")
    /\ RGet(rules[i], "field").t = "str"
    /\ RGet(rules[i], "default_value") # None
    /\ RuleSeverity(rules[i], "error") = "error"

\* C8 (as claimed): with auto_correct, a required rule with default_value
\* corrects an absent or null field to default_value; a present field yields
\* no violation and, the rule being alone, no corrected output.
C8_RequiredDefaultFilled ==
    (Returned /\ AutoCorrectOn) =>
        \A i \in 1..Len(rules) :
            IsRequiredWithDefault(i) =>
                /\ FieldValue(i) = None =>
                      /\ result.corrected_output # None
                      /\ GetFieldValue(result.corrected_output, rules[i]["field"].s)
                             = rules[i]["default_value"]
                /\ FieldValue(i) # None =>
                      /\ ViolationsOf(i) = {}
                      /\ Len(rules) = 1 => result.corrected_output = None

\* a rule dict that does not parse into its kind
Malformed(rule) ==
    \/ /\ RGet(rule, "type") \in {StrV("range"), StrV("pattern"), StrV("constraint")}
       /\ RGet(rule, "field") = None
    \/ /\ RGet(rule, "type") = StrV("pattern")
       /\ RGet(rule, "pattern") = None
    \/ /\ RGet(rule, "type") = StrV("reference")
       /\ RGet(rule, "table") = None

\* C9 (as claimed): a malformed rule never aborts the request; it yields
\* exactly one violation, of severity warning.
C9_MalformedRuleIsWarning ==
    /\ pc # "raised"
    /\ Returned =>
          \A i \in 1..Len(rules) :
              Malformed(rules[i]) =>
                  /\ Cardinality(ViolationsOf(i)) = 1
                  /\ \A k \in ViolationsOf(i) : result.violations[k].severity = "warning"

KnownKinds ==
    {StrV("schema"), StrV("range"), StrV("pattern"), StrV("constraint"), StrV("enum"),
     StrV("required"), StrV("reference"), StrV("external_ref"), StrV("semantic"),
     StrV("web_verify"), StrV("anomaly_ml")}

IsKnownKind(rule) == RGet(rule, "type") \in KnownKinds

\* a result with the positions of the rules taken out of its violations
WithoutPositions(r) ==
    IF r.raised THEN r
    ELSE [r EXCEPT !.violations =
              [k \in 1..Len(r.violations) |-> [r.violations[k] EXCEPT !.rule_idx = 0]]]

\* C10: a rule of an unknown kind produces no violation and no error, and the
\* result is the one of the same request without the rules of unknown kinds.
C10_UnknownKindSkipped ==
    pc \in {"returned", "raised"} =>
        /\ Returned => \A i \in 1..Len(rules) : ~IsKnownKind(rules[i]) => ViolationsOf(i) = {}
        /\ WithoutPositions(result) =
              WithoutPositions(ValidationEngineValidate(
                  output, SelectSeq(rules, IsKnownKind), context, has_db, env))

\* a request with a rule of an unknown kind whose other rules reported
C10_Witness ==
    /\ Returned
    /\ result.violations # <<>>
    /\ \E i \in 1..Len(rules) :
          /\ ~IsKnownKind(rules[i])
          /\ i < Len(rules)
          /\ ViolationsOf(i + 1) # {}

----------------------------------------------------------------------------
(* External connectors *)

Checked == pc = "checked"

\* the connector is registered and fails: it raises, or its request times out
ConnectorFails == env.connector \in {"raises", "timeout"}

\* the phrase of the detail that names the failure
FailurePhrase == IF env.connector = "timeout" THEN "timed out after" ELSE "error: "

\* C11: check returns for every registered connector that completes, also one
\* that raises or times out: then the result has exists = false, a detail that
\* names the failure, and the measured latency, as it has on success.
C11_CheckNeverRaises ==
    (Checked /\ env.connector # "unregistered") =>
        /\ ~check_result.raised
        /\ check_result.latency_ms = env.elapsed_ms
        /\ ConnectorFails =>
              /\ ~check_result.exists
              /\ Contains(check_result.detail, FailurePhrase)
              /\ Contains(check_result.detail, "fiqh_registry")

C11_Witness == Checked /\ ConnectorFails /\ ~check_result.exists /\ env.elapsed_ms > 0

\* an infrastructure problem: the connector is not registered, raises or times out
InfrastructureProblem == env.connector \in {"unregistered", "raises", "timeout"}

\* the violations of the external_ref rules that reached the connector lookup
ConnectorViolations ==
    {result.violations[k] : k \in {j \in 1..Len(result.violations) :
        CallsConnector(output, rules[result.violations[j].rule_idx])}}

\* C12 (as claimed): an external_ref rule never makes validate raise, an
\* infrastructure problem gives a violation of severity warning, and the
\* rule's own severity is used only when the connector answered that the
\* value does not exist.
C12_InfrastructureIsWarning ==
    /\ pc # "raised"
    /\ Returned =>
          \A v \in ConnectorViolations :
              /\ InfrastructureProblem => v.severity = "warning"
              /\ v.severity # "warning" => env.connector = "missing"

\* the timeout of the rule whose connector call is pending
PendingTimeout ==
    LET i == CHOOSE i \in HungRules : TRUE
    IN ToFloat(RGetOr(rules[i], "timeout", FloatV(10))).n

\* C13 (as claimed): a call that is suspended on a connector when the rule's
\* timeout has passed is abandoned, and validate returns.
C13_HungCallAbandoned == (pc = "awaiting" /\ waited >= PendingTimeout) ~> Returned


----------------------------------------------------------------------------
(* ML anomaly detector: properties *)

\* some train call of the organization has returned success: train alone
\* installs a model fitted for the organization itself, and none is removed
TrainSucceeded(org_id) == IsTrained(models, org_id) /\ models[org_id].trained_for = org_id

ScoreCalled == ml_result.ret.op = "score"
TrainCalled == ml_result.ret.op = "train"
RuleCalled == ml_result.ret.op = "rule"

NotTrainedScore ==
    /\ ~ml_result.ret.raised
    /\ ~ml_result.ret.is_anomaly
    /\ ml_result.ret.reason = "Model not trained yet"

\* C14: an organization for which no train call has succeeded is never
\* reported anomalous: score returns is_anomaly false with the not-trained
\* reason and does not raise, and an anomaly_ml rule of the organization
\* yields exactly one violation, of severity warning
C14_UntrainedNeverAnomalous ==
    /\ (ScoreCalled /\ ~TrainSucceeded(ml_result.ret.org_id)) => NotTrainedScore
    /\ (RuleCalled /\ ~TrainSucceeded(ml_result.ret.org_id)) =>
            /\ Len(ml_result.ret.violations) = 1
            /\ ml_result.ret.violations[1].severity = "warning"


\* the organization of the call had a model in memory before the call
Cached == ml_result.before # None

\* a failed train call: success false with a message, and the model of the
\* organization in memory as it was
TrainFailedCleanly ==
    /\ ~ml_result.ret.success
    /\ ml_result.ret.message # ""
    /\ models[ml_result.ret.org_id] = ml_result.before

\* C15: train never raises; with fewer than two rows, or when fitting fails,
\* it returns success false with a message and leaves the model in memory
\* as it was; and an organization is trained only once a train call of the
\* organization has returned success
C15_TrainNeverRaises ==
    /\ TrainCalled =>
            /\ ~ml_result.ret.raised
            /\ (ml_result.ret.n_samples < 2 \/ ~ml_result.fit_ok) => TrainFailedCleanly
    /\ \A org_id \in Orgs : IsTrained(models, org_id) => TrainSucceeded(org_id)

\* C16: the store is best-effort.  A train call whose write fails still
\* returns success and installs the model, and a score call of an
\* organization with a model in memory is answered by that model whatever
\* the store holds; a score call whose lazy load cannot read the file
\* answers as for an untrained organization and does not raise
C16_StoreBestEffort ==
    /\ (TrainCalled /\ ~ml_result.ret.raised /\ ml_result.fit_ok
            /\ ml_result.ret.n_samples >= 2 /\ ~ml_result.write_ok) =>
            /\ ml_result.ret.success
            /\ TrainSucceeded(ml_result.ret.org_id)
    /\ (ScoreCalled /\ Cached) =>
            /\ ml_result.ret.used # None
            /\ ml_result.ret.used = models[ml_result.ret.org_id]
    /\ (ScoreCalled /\ ~Cached /\ ~ml_result.read_ok) => NotTrainedScore

\* a score call answered by the model a train call installed although its
\* write had failed: the store holds no file of the organization
C16_Witness ==
    /\ ScoreCalled
    /\ Cached
    /\ store[ModelPath(ml_result.ret.org_id)] = None
    /\ ml_result.ret.used = models[ml_result.ret.org_id]
    /\ TrainSucceeded(ml_result.ret.org_id)

----------------------------------------------------------------------------
(* Confidence scorer: properties *)

\* no corrections, no statistical score of the caller, no reference violations
PlainScoring ==
    /\ scoring # NoScoring
    /\ scoring.res.violations = <<>>
    /\ ~Truthy(scoring.res.corrections_applied)
    /\ scoring.statistical_score = None
    /\ ~scoring.has_reference_violations

\* C17: for a result without violations, without corrections, with no
\* statistical score and no reference violations, the overall confidence
\* calculate_confidence returns equals 1.0 and its level is very_high
C17_CleanResultFullConfidence ==
    PlainScoring =>
        /\ confidence.factors # None => confidence.factors.overall_confidence = One
        /\ confidence.level # "" => confidence.level = "very_high"

\* such a result has been scored and its level read
C17_Witness ==
    /\ PlainScoring
    /\ confidence.factors # None
    /\ confidence.factors.overall_confidence = One
    /\ confidence.level = "very_high"

----------------------------------------------------------------------------
(* Repeated calls and the caller's document: properties *)

\* the second call returned what the first returned
SameAnswer ==
    /\ pc = "evaluated_again" => second = result
    /\ pc = "fixed_again" => second = fix_result

----------------------------------------------------------------------------
(* Pattern heuristics: properties *)

\* the caller asked for auto-detection
AutoDetectionAsked ==
    /\ Truthy(context)
    /\ Truthy(DictGet(context, "detect_anomalies"))
    /\ Truthy(DictGet(context, "auto_detect_anomalies"))

\* the result holds a statistical violation of the pattern for the field
Reported(rule_name, field) ==
    \E k \in 1..Len(result.violations) :
        /\ result.violations[k].rule_name = rule_name
        /\ result.violations[k].violation_type = "statistical"
        /\ result.violations[k].field = field

\* every heuristic the numeric field matches is reported for it
HeuristicsReported(f) ==
    /\ IsSuspiciousRoundNumber(f.value) => Reported("auto_pattern_round_number", f.field)
    /\ f.value \in PlaceholderValues => Reported("auto_pattern_placeholder", f.field)
    /\ ((Contains(f.field, "percent") \/ Contains(f.field, "rate"))
            /\ (f.value > 100 \/ f.value < 0)) =>
            Reported("auto_pattern_invalid_percentage", f.field)

\* C20: when the caller asks for auto-detection, validate reports a
\* statistical violation for every pattern heuristic a numeric field of the
\* document matches: round number, placeholder value, percentage outside
\* [0, 100]
C20_PatternsReported ==
    (pc = "returned" /\ AutoDetectionAsked) =>
        \A i \in 1..Len(ExtractNumericFields(output)) :
            HeuristicsReported(ExtractNumericFields(output)[i])

----------------------------------------------------------------------------
(* Statistical analyzer: properties *)

\* the threshold the call works with, in halves
ThresholdHalves == IF zscore.threshold = None THEN 6 ELSE (2 * zscore.threshold.n) \div zscore.threshold.d

\* |value - mean| / std_dev exceeds k halves; with std_dev = 0 the z-score is
\* infinite for a value that differs from the mean and 0 for the mean
ExceedsHalves(k) ==
    IF zscore.std_dev = 0 THEN zscore.value # zscore.mean
    ELSE 2 * Abs(zscore.value - zscore.mean) > k * zscore.std_dev

\* four times the z-score exceeds k, the threshold times 1.5 in quarters
ExceedsQuarters(k) ==
    IF zscore.std_dev = 0 THEN zscore.value # zscore.mean
    ELSE 4 * Abs(zscore.value - zscore.mean) > k * zscore.std_dev

\* C21: the z-score test flags a value exactly when |value - mean| / std_dev
\* exceeds the threshold (3.0 by default), its severity is error exactly
\* when the z-score exceeds 1.5 times the threshold, with std_dev = 0 the
\* z-score is 0 for the mean and infinite otherwise, and mean 500, std_dev
\* 50, value 1000 give z = 10, an outlier, severity error
C21_ZscoreFlagsBeyondThreshold ==
    zscore.result # None =>
        /\ zscore.result.is_outlier <=> ExceedsHalves(ThresholdHalves)
        /\ zscore.result.severity = "error" <=> ExceedsQuarters(3 * ThresholdHalves)
        /\ zscore.std_dev = 0 =>
                zscore.result.score = (IF zscore.value = zscore.mean THEN Ratio(0, 1) ELSE Infinity)
        /\ (zscore.mean = 500 /\ zscore.std_dev = 50 /\ zscore.value = 1000) =>
                /\ zscore.result.score.n = 10 * zscore.result.score.d
                /\ zscore.result.is_outlier
                /\ zscore.result.severity = "error"

\* the example of the claim has been tested with the default threshold
C21_Witness ==
    /\ zscore.result # None
    /\ zscore.mean = 500 /\ zscore.std_dev = 50 /\ zscore.value = 1000
    /\ zscore.threshold = None
    /\ zscore.result.is_outlier
    /\ zscore.result.severity = "error"

----------------------------------------------------------------------------
(* Monthly quota *)

\* C22: an organization whose usage has reached its monthly quota is answered
\* 429 by require_quota before the validation runs, so usage_current_month
\* never exceeds monthly_quota.
C22_UsageWithinQuota ==
    organization # None =>
        /\ organization.usage_current_month <= organization.monthly_quota
        /\ (http_status = 200 =>
               organization.usage_current_month - 1 < organization.monthly_quota)

----------------------------------------------------------------------------
(* Auto-corrector: one fix per violation *)

\* C23: for each error violation the strategies are tried in their fixed
\* order and at most one fix is recorded per violation; a strategy that
\* raises or reports that it could not fix counts as "could not fix" (nothing
\* is recorded for it, the next strategy is tried), and no strategy is applied
\* after one has fixed the violation.
C23_OneFixPerViolation ==
    (pc = "fixed" /\ ~FixDisabled(context)) =>
        LET errors == SelectSeq(CollectViolations(output, rules, context, has_db, env).vs, IsError)
        IN  /\ Len(fix_result.fixes) <= Len(errors)
            /\ \A k \in 1..Len(fix_result.fixes) :
                  fix_result.fixes[k] \notin FailureDescriptions

----------------------------------------------------------------------------
(* Auto-corrector: what RangeClamp applies to *)

\* the value of the field of v lies in the interval that v carries
ClampedInto(doc, v) ==
    /\ doc # None
    /\ IsNumeric(GetFieldValue(doc, v.field))
    /\ Num(GetFieldValue(doc, v.field)) >= ExtractRange(v).min
    /\ Num(GetFieldValue(doc, v.field)) <= ExtractRange(v).max

\* C24: RangeClamp applies to an error violation exactly when its hint
\* carries both min and max or its message matches "between X and Y",
\* whatever the rule's name and whichever evaluator produced it; every such
\* violation on a numeric field is clamped into [min, max], the percentage
\* violation of the pattern heuristics included.
C24_RangeClampByHint ==
    (Returned /\ AutoCorrectOn) =>
        \A k \in 1..Len(result.violations) :
            result.violations[k].severity = "error" =>
                /\ RangeCanFix(result.violations[k]) <=> ExtractRange(result.violations[k]).ok
                /\ (/\ ExtractRange(result.violations[k]).ok
                    /\ IsNumeric(GetFieldValue(output, result.violations[k].field)))
                      => ClampedInto(result.corrected_output, result.violations[k])

----------------------------------------------------------------------------
(* Constraint rules *)

\* rule i is a constraint rule on a field the document has
IsConstraintOnPresent(i) ==
    /\ RuleType(i) = StrV("constraint")
    /\ FieldValue(i) # None

\* what the predicate of rule i gives on the document
Predicate(i) == EvalExpression(RGet(rules[i], "expression"), FieldValue(i))

\* C25: for a constraint rule on a present field, a predicate that raises or
\* whose result is not a boolean yields one violation of severity 'warning'
\* with the error message; the boolean false yields one violation with the
\* rule's severity; the boolean true yields none.
C25_ConstraintOutcomes ==
    Returned =>
        \A i \in 1..Len(rules) :
            IsConstraintOnPresent(i) =>
                IF Predicate(i).err \/ Predicate(i).v.t # "bool"
                THEN /\ Cardinality(ViolationsOf(i)) = 1
                     /\ \A k \in ViolationsOf(i) :
                           /\ result.violations[k].severity = "warning"
                           /\ result.violations[k].message = "Constraint evaluation error"
                ELSE IF Predicate(i).v = BoolV(FALSE)
                THEN /\ Cardinality(ViolationsOf(i)) = 1
                     /\ \A k \in ViolationsOf(i) :
                           result.violations[k].severity = RuleSeverity(rules[i], "error")
                ELSE ViolationsOf(i) = {}

----------------------------------------------------------------------------
(* Reference rules *)

\* rule i is a well-formed reference rule
IsReference(i) == RuleType(i) = StrV("reference") /\ ReferenceRuleParses(rules[i])

\* rule i has a reference violation in the result
ReferenceReported(i) ==
    \E k \in ViolationsOf(i) : result.violations[k].violation_type = "reference"

\* C26: for every reference rule of a validate request, a value that is not
\* in table.column yields a reference violation in the result, and so does a
\* lookup whose query fails; the rules after it are evaluated as without the
\* failure.
C26_MissingReferenceReported ==
    Returned =>
        \A i \in 1..Len(rules) :
            (IsReference(i) /\ ~CheckReferenceExists(env)) => ReferenceReported(i)

\* the same for the engines that were given a database session
ReportedWithSession == has_db => C26_MissingReferenceReported

----------------------------------------------------------------------------
(* ML anomaly detector: the cache under concurrent calls *)

\* the entry is the record that train call t stored
EntryOf(entry, t) == entry = StoredModel(RaceOrg, threads[t].fields, threads[t].n)

\* the train call that stored its entry last
LastWriter == CHOOSE t \in Installed : \A u \in Installed : threads[u].order <= threads[t].order

AllDone == \A t \in 1..Len(threads) : threads[t].pc = "done"

\* C27: under any interleaving of train and score calls for one organization
\* the cache entry is absent or the whole record of one successful train
\* call, a score call works with the whole record of one train call, and once
\* every call has finished the entry is the one of the train call that wrote
\* last.
C27_EntryOfLastTrain ==
    /\ models[RaceOrg] = None \/ \E t \in Installed : EntryOf(models[RaceOrg], t)
    /\ \A s \in 1..Len(threads) :
          (threads[s].op = "score" /\ threads[s].used # None) =>
              \E t \in Installed : EntryOf(threads[s].used, t)
    /\ (AllDone /\ Installed # {}) => EntryOf(models[RaceOrg], LastWriter)

\* the first two parts of C27: whole records only
WholeRecords ==
    /\ models[RaceOrg] = None \/ \E t \in Installed : EntryOf(models[RaceOrg], t)
    /\ \A s \in 1..Len(threads) :
          (threads[s].op = "score" /\ threads[s].used # None) =>
              \E t \in Installed : EntryOf(threads[s].used, t)

----------------------------------------------------------------------------
(* Rate limiter *)

\* the requests that check_rate_limit allowed
Allowed == {t \in 1..Len(threads) : threads[t].op = "request" /\ threads[t].allowed}

\* the allowed requests whose timestamps are in the window that ends with
\* request t
AllowedInWindow(t, window) ==
    {u \in Allowed : /\ threads[u].current_time > threads[t].current_time - window.seconds
                     /\ threads[u].current_time <= threads[t].current_time}

\* C28: for every window, check_rate_limit allows at most `limit` requests
\* whose timestamps are inside one sliding window, also when requests
\* arrive within one second and when they interleave between the check and
\* the increment.
C28_AtMostLimitPerWindow ==
    \A t \in Allowed : \A i \in 1..3 :
        Cardinality(AllowedInWindow(t, Windows(RateLimitConfig)[i]))
            <= Windows(RateLimitConfig)[i].limit

----------------------------------------------------------------------------
(* API keys *)

\* C29: an organization with an active API key keeps at least one after any
\* sequence or interleaving of revoke and rotate requests; the key that a
\* finished rotation replaced no longer authenticates.
C29_AlwaysAnActiveKey ==
    /\ api_keys # <<>> => ActiveKeys(api_keys) # {}
    /\ \A t \in 1..Len(threads) :
          (threads[t].op = "rotate" /\ threads[t].status = 200) =>
              ~VerifyApiKey(api_keys, threads[t].key_id)

----------------------------------------------------------------------------
(* ML anomaly detector: tenant isolation *)

\* C30: the models of distinct organization ids are kept apart, in memory
\* and in the store, also for ids that differ only in characters other than
\* letters, digits, '-' and '_': the model cached for an organization is one
\* that a train call of that organization fitted, and score works with no
\* other.
C30_TenantIsolation ==
    /\ \A org_id \in Orgs :
          IsTrained(models, org_id) => models[org_id].trained_for = org_id
    /\ (ScoreCalled /\ ~ml_result.ret.raised /\ ml_result.ret.used # None) =>
          ml_result.ret.used.trained_for = ml_result.ret.org_id

====
